---- MODULE Spec2Model ----
(***************************************************************************)
(* A model of the semantic resolution core of the Chapel front-end         *)
(* (frontend/lib/resolution/resolution-queries.cpp).                       *)
(*                                                                         *)
(* The module holds several state machines over one set of variables:      *)
(*   - the call-resolution machine (candidate gathering, filtering,        *)
(*     forwarding, the implicit-receiver drivers): SpecCall and SpecFwd    *)
(*     run the same actions over two families of programs;                 *)
(*   - the field / genericity queries: SpecFields;                         *)
(*   - the body-resolution queries: SpecBody.                              *)
(* A machine leaves the variables of the other machines unchanged.         *)
(***************************************************************************)
EXTENDS Integers, Sequences, FiniteSets, TLC

(***************************************************************************)
(* Bounds of the model.                                                    *)
(***************************************************************************)
\* number of composite types of a program
NumTypes == 3
\* length of the point-of-instantiation chain of a call (PoiScope::inFnPoi)
MaxPoi == 2
\* number of calls resolved one after the other in one revision
MaxCalls == 2

Types == 1..NumTypes
\* the null / unknown type pointer
NoType == 0
\* depth at which the model stops following the forwarding recursion: one
\* frame more than there are types, so a receiver type met twice is seen
MaxDepth == NumTypes + 1

(***************************************************************************)
(* Sequence helpers.                                                       *)
(***************************************************************************)
Range(s) == {s[i] : i \in 1..Len(s)}

RECURSIVE SeqFilterOk(_)
\* the entries of a sequence of ApplicabilityResult that succeeded
SeqFilterOk(s) ==
  IF s = <<>> THEN <<>>
  ELSE IF Head(s).ok THEN <<Head(s)>> \o SeqFilterOk(Tail(s))
       ELSE SeqFilterOk(Tail(s))

RECURSIVE SeqFilterFail(_)
SeqFilterFail(s) ==
  IF s = <<>> THEN <<>>
  ELSE IF ~Head(s).ok THEN <<Head(s)>> \o SeqFilterFail(Tail(s))
       ELSE SeqFilterFail(Tail(s))

(***************************************************************************)
(* The functions a program can declare.  A declaration is described by     *)
(* what the resolver finds when it looks at it:                            *)
(*   name      the function's name                                         *)
(*   recv      the composite type it is a method on (NoType: no method)    *)
(*   generic   some formal is generic (typedSignatureInitial finds         *)
(*             needsInstantiation)                                         *)
(*   whereKind what the where clause evaluates to once the formals are     *)
(*             concrete: "none" (no clause), "true", "false", "nonparam"   *)
(*   argsPass  canPass accepts the call's actuals for the formals          *)
(*   inst      what instantiateSignature does with the call: "fail"        *)
(*             (canPass rejects), "nosub" (no substitution recorded),      *)
(*             "concrete", "partial" (still generic afterwards)            *)
(*   cgen      compiler-generated                                          *)
(***************************************************************************)
Fn(n, r, g, w, a, i, c) ==
  [name |-> n, recv |-> r, generic |-> g, whereKind |-> w,
   argsPass |-> a, inst |-> i, cgen |-> c]

FnTable ==
  <<Fn("foo", 1, FALSE, "none",     TRUE,  "concrete", FALSE),
    Fn("foo", 1, FALSE, "false",    TRUE,  "concrete", FALSE),
    Fn("foo", 1, FALSE, "nonparam", TRUE,  "concrete", FALSE),
    Fn("foo", 1, FALSE, "true",     FALSE, "concrete", FALSE),
    Fn("foo", 1, TRUE,  "true",     TRUE,  "concrete", FALSE),
    Fn("foo", 1, TRUE,  "false",    TRUE,  "concrete", FALSE),
    Fn("foo", 1, TRUE,  "none",     TRUE,  "fail",     FALSE),
    Fn("foo", 1, TRUE,  "nonparam", TRUE,  "nosub",    FALSE),
    Fn("foo", 1, TRUE,  "false",    TRUE,  "partial",  FALSE),
    Fn("foo", 2, FALSE, "none",     TRUE,  "concrete", FALSE),
    Fn("foo", 2, TRUE,  "false",    TRUE,  "concrete", FALSE),
    Fn("foo", 3, FALSE, "none",     TRUE,  "concrete", FALSE),
    Fn("foo", NoType, FALSE, "none",  TRUE, "concrete", FALSE),
    Fn("foo", NoType, TRUE,  "false", TRUE, "concrete", FALSE),
    Fn("foo", 1, FALSE, "none",     TRUE,  "concrete", TRUE),
    Fn("foo", 1, TRUE,  "none",     TRUE,  "concrete", TRUE)>>

FnIds == 1..Len(FnTable)
\* no function / no signature
NoFn == 0

(***************************************************************************)
(* TypedFnSignature: the fields the candidate filters read.                *)
(***************************************************************************)
TFS(f, ni, w, from) ==
  [fn |-> f, needsInstantiation |-> ni, where |-> w, instantiatedFrom |-> from]

NoSig == TFS(NoFn, FALSE, "WHERE_NONE", FALSE)

\* ApplicabilityResult::success / ::failure
Success(sig) == [ok |-> TRUE, sig |-> sig, reason |-> "none"]
Failure(f, why) == [ok |-> FALSE, sig |-> TFS(f, FALSE, "WHERE_NONE", FALSE),
                    reason |-> why]

\* CallInfo: the name, whether it is a method call or an operator call, and
\* the type of the receiver actual (actual(0)) of a method or operator call
CallInfo(n, m, o, r) == [name |-> n, isMethodCall |-> m, isOpCall |-> o, recv |-> r]


(***************************************************************************)
(* State.                                                                  *)
(***************************************************************************)
VARIABLES
  \* ---- the call-resolution machine
  prog,              \* the program: forwarding declarations, scopes, POI chain
  pc,                \* position in resolveFnCall / the drivers
  entry,             \* the entry point that was called
  call,              \* the call AST node: [isNull, insideForwarding]
  written,           \* the CallInfo as written
  implicitReceiver,  \* type of the implicit receiver (NoType: none)
  stage,             \* which CallInfo the driver is resolving: "method", "written"
  ci,                \* the CallInfo resolveFnCall is working on
  candidates,        \* gatherAndFilterCandidates: CandidatesVec candidates
  firstPoiCandidate, \* index (0-based) of the first candidate found through POI
  forwardingInfo,    \* ForwardingInfoVec: receiver type per forwarded candidate
  rejected,          \* the caller's rejected list (std::vector<ApplicabilityResult>*)
  wantRejected,      \* whether the caller passed a rejected list
  poiLeft,           \* the POI scopes not yet searched (curPoi and its inFnPoi chain)
  visited,           \* CheckedScopes of gatherAndFilterCandidates
  fstack,            \* frames of gatherAndFilterCandidatesForwarding
  fwdOut,            \* its out-parameters: nonPoi/poi candidates and forwardingTo
  cycleMemo,         \* memo table of forwardingCycleCheckQuery
  diags,             \* diagnostics emitted through context->error
  searched,          \* the candidate sources searched so far by this resolveFnCall
  attempts,          \* the resolveCall invocations made by the driver, in order
  mostSpecific,      \* result of findMostSpecificCandidates (indices into candidates)
  result,            \* the CallResolutionResult returned to the driver's caller
  ncalls,            \* calls resolved so far in this revision
  \* ---- the field / genericity queries
  fprog,             \* the type declarations: parent class and fields
  fmemo,             \* memo table of fieldsForTypeDeclQuery
  glog,              \* the getTypeGenericity calls made and what they returned
  flog,              \* the fieldsForTypeDecl calls made at top level
  nqueries,          \* top-level queries made so far in this revision
  tuplog,            \* the last getTypeGenericity call made for a tuple type
  \* ---- the resolution of function bodies
  bprog,             \* the signatures, the calls of their bodies, what POI finds
  bstack,            \* the running resolveFunctionByInfoQuery calls, outermost first
  bmemo,             \* memo table of resolveFunctionByInfoQuery
  pmemo,             \* memo table of resolveFunctionByPoisQuery
  blog,              \* the calls resolved in function bodies and their PoiInfo
  btop,              \* module-level calls resolved so far in this revision
  \* ---- instantiateSignature under the instantiating filter
  iprog,             \* the call: the candidate list, '?' argument, rejected list
  ipc,               \* position in filterCandidatesInstantiating / instantiateSignature
  ifilter,           \* the filter's loop: candidate index, result, rejected
  iloc,              \* locals of instantiateSignature
  ilog,              \* what instantiateSignature and the filter returned, per candidate
  ninst,             \* filter invocations made so far in this revision
  \* ---- the built-in type-producing expressions
  elog,              \* the expression resolved last: the call, the type, the errors
  nexprs,            \* expressions resolved so far in this revision
  \* ---- the runtime's CPU topology layer
  \* ---- the hwloc topology layer of the runtime
  tmach,             \* the compute node as hwloc reports it, and the launch settings
  tpc,               \* "idle", "running", or "exited" after chpl_error / CHK_ERR
  physAccSet,        \* accessible cores, each named by the smallest OS index of its PUs
  physReservedSet,   \* reserved cores
  logAccSet,         \* accessible PUs
  numCPUsPhysAcc,    \* number of accessible cores
  numCPUsLogAcc,     \* number of accessible PUs
  okToReserveCPU,    \* no CPU information was handed out yet
  socket,            \* logical index of our socket (NoSocket: none)
  oversubscribed,    \* locales share the node
  partitioned,       \* chpl_topo_post_comm_init has run
  tbound,            \* the cpuset the calling thread was bound to by chpl_topo_bindCPU
  tlog,              \* the last call of the interface and what it returned
  granted,           \* the ids chpl_topo_reserveCPUPhysical has returned
  queried,           \* a CPU count or CPU list was handed out
  \* ---- the initial signatures
  slog,              \* the typedSignatureInitial queries made: signature and errors
  tclog,             \* the typeConstructorInitial query made: the type, the signature
  nsigs              \* signature queries made so far in this revision

callVars ==
  <<prog, pc, entry, call, written, implicitReceiver, stage, ci, candidates,
    firstPoiCandidate, forwardingInfo, rejected, wantRejected, poiLeft, visited,
    fstack, fwdOut, cycleMemo, diags, searched, attempts, mostSpecific, result,
    ncalls>>

fieldVars == <<fprog, fmemo, glog, flog, nqueries, tuplog>>

bodyVars == <<bprog, bstack, bmemo, pmemo, blog, btop>>

instVars == <<iprog, ipc, ifilter, iloc, ilog, ninst>>

exprVars == <<elog, nexprs>>

topoVars == <<tmach, tpc, physAccSet, physReservedSet, logAccSet, numCPUsPhysAcc,
              numCPUsLogAcc, okToReserveCPU, socket, oversubscribed, partitioned,
              tbound, tlog, granted, queried>>

sigVars == <<slog, tclog, nsigs>>

vars == <<callVars, fieldVars, bodyVars, instVars, exprVars, topoVars, sigVars>>

(***************************************************************************)
(* Signature construction and the candidate filters.                       *)
(***************************************************************************)
\* a variant that takes a clause that is no param bool for a true one
WhereClauseAssumedTrue(d, needsInstantiation) ==
  IF d.whereKind = "none" THEN "WHERE_NONE"
  ELSE IF d.whereKind = "false" THEN "WHERE_FALSE"
  ELSE IF d.whereKind = "true" \/ ~needsInstantiation THEN "WHERE_TRUE"
  ELSE "WHERE_TBD"

\* whereClauseResult(context, fn, r, needsInstantiation): a clause that is no
\* param bool on a signature that needs no instantiation reports an error
\* and leaves the initial WHERE_TBD
whereClauseResult(d, needsInstantiation) ==
  IF d.whereKind # "none"
  THEN IF d.whereKind = "true" THEN "WHERE_TRUE"
       ELSE IF d.whereKind = "false" THEN "WHERE_FALSE"
       ELSE IF needsInstantiation THEN "WHERE_TBD"
       ELSE "WHERE_TBD"
  ELSE "WHERE_NONE"

\* the errors whereClauseResult reports through context->error
whereClauseErrors(d, needsInstantiation) ==
  IF d.whereKind \notin {"none", "true", "false"} /\ ~needsInstantiation
  THEN {"where clause does not result in a param bool value"}
  ELSE {}

\* typedSignatureInitialQuery: the where clause is visited only when the
\* signature needs no instantiation
typedSignatureInitial(f) ==
  LET d == FnTable[f]
      needsInstantiation == d.generic
      whereResult ==
        IF d.whereKind # "none"
        THEN IF needsInstantiation THEN "WHERE_TBD"
             ELSE whereClauseResult(d, needsInstantiation)
        ELSE "WHERE_NONE"
  IN TFS(f, needsInstantiation, whereResult, FALSE)

\* the errors typedSignatureInitialQuery reports for the function f
typedSignatureInitialErrors(f) ==
  IF FnTable[f].whereKind # "none" /\ ~FnTable[f].generic
  THEN whereClauseErrors(FnTable[f], FALSE)
  ELSE {}

\* canPass(actual receiver, the 'this' formal): the receiver types agree
ReceiverPasses(d, c) ==
  d.recv # NoType => c.recv = d.recv

isUntypedSignatureApplicable(d, c) ==
  ~(~c.isOpCall /\ c.isMethodCall # (d.recv # NoType))

isInitialTypedSignatureApplicable(tfs, c) ==
  LET d == FnTable[tfs.fn] IN
  IF ~isUntypedSignatureApplicable(d, c)
  THEN Failure(tfs.fn, "FAIL_CANDIDATE_OTHER")
  ELSE IF ~(d.argsPass /\ ReceiverPasses(d, c))
  THEN Failure(tfs.fn, "FAIL_CANNOT_PASS")
  ELSE IF tfs.where = "WHERE_FALSE"
  THEN Failure(tfs.fn, "FAIL_WHERE_CLAUSE")
  ELSE Success(tfs)

\* doIsCandidateApplicableInitial, for a candidate that is a function
doIsCandidateApplicableInitial(f, c) ==
  isInitialTypedSignatureApplicable(typedSignatureInitial(f), c)

\* instantiateSignature: a failed canPass is a failure; no substitution
\* returns the signature itself; otherwise a new signature carrying the
\* where-clause result computed under the substitutions
instantiateSignature(sig, c) ==
  LET d == FnTable[sig.fn] IN
  IF d.inst = "fail" THEN Failure(sig.fn, "FAIL_CANNOT_PASS")
  ELSE IF d.inst = "nosub" THEN Success(sig)
  ELSE LET needsInstantiation == (d.inst = "partial")
       IN Success(TFS(sig.fn, needsInstantiation,
                      whereClauseResult(d, needsInstantiation), TRUE))

\* a variant that returns the instantiation without looking at its where
\* clause result
InstantiatingWithoutWhereCheck(sig, c) == instantiateSignature(sig, c)

doIsCandidateApplicableInstantiating(sig, c) ==
  LET instantiated == instantiateSignature(sig, c) IN
  IF ~instantiated.ok THEN instantiated
  ELSE IF instantiated.sig.where = "WHERE_FALSE"
  THEN Failure(sig.fn, "FAIL_WHERE_CLAUSE")
  ELSE instantiated

RECURSIVE InitialResults(_, _)
\* isCandidateApplicableInitialQuery for each id found by the lookup
InitialResults(ids, c) ==
  IF ids = <<>> THEN <<>>
  ELSE <<doIsCandidateApplicableInitial(Head(ids), c)>> \o InitialResults(Tail(ids), c)

RECURSIVE Sigs(_)
Sigs(rs) == IF rs = <<>> THEN <<>> ELSE <<Head(rs).sig>> \o Sigs(Tail(rs))

\* filterCandidatesInitialGatherRejected: (matching, rejected)
filterCandidatesInitialGatherRejected(ids, c, gatherRejected) ==
  LET rs == InitialResults(ids, c) IN
  [matching |-> Sigs(SeqFilterOk(rs)),
   rejected |-> IF gatherRejected THEN SeqFilterFail(rs) ELSE <<>>]

filterCandidatesInitial(ids, c) ==
  filterCandidatesInitialGatherRejected(ids, c, FALSE).matching

RECURSIVE filterCandidatesInstantiating(_, _, _, _, _)
\* filterCandidatesInstantiating(lst, call, result, rejected): out is the
\* pair (result, rejected) the function appends to; hasRej says whether the
\* rejected pointer is non-null
filterCandidatesInstantiating(lst, c, res, rej, hasRej) ==
  IF lst = <<>> THEN [result |-> res, rejected |-> rej]
  ELSE LET sig == Head(lst) IN
       IF sig.needsInstantiation
       THEN LET instantiated == doIsCandidateApplicableInstantiating(sig, c)
                res1 == IF instantiated.ok THEN Append(res, instantiated.sig) ELSE res
                rej1 == IF hasRej THEN Append(rej, instantiated) ELSE rej
            IN filterCandidatesInstantiating(Tail(lst), c, res1, rej1, hasRej)
       ELSE filterCandidatesInstantiating(Tail(lst), c, Append(res, sig), rej, hasRej)

(***************************************************************************)
(* Lookup in the program.                                                  *)
(***************************************************************************)
\* the scope a call is written in, and the scopes of the POI chain
LexScope == 1
\* no scope (a null Scope pointer)
NoScope == 0
Scopes == 1..(1 + MaxPoi)

RECURSIVE SelectNamed(_, _)
\* the ids of a scope a lookup of the call's name returns: with
\* LOOKUP_ONLY_METHODS_FIELDS a method call finds methods only
SelectNamed(ids, c) ==
  IF ids = <<>> THEN <<>>
  ELSE LET d == FnTable[Head(ids)] IN
       IF d.name = c.name /\ (c.isMethodCall => d.recv # NoType)
       THEN <<Head(ids)>> \o SelectNamed(Tail(ids), c)
       ELSE SelectNamed(Tail(ids), c)

\* lookupCalledExpr: lookupNameInScopeWithSet skips a scope it has checked
lookupCalledExpr(scope, c, vis) ==
  IF scope \in vis THEN <<>> ELSE SelectNamed(prog.scopes[scope], c)

\* considerCompilerGeneratedCandidates
considerCompilerGeneratedCandidates(c, cands) ==
  IF ~c.isMethodCall /\ ~c.isOpCall THEN cands
  ELSE LET f == IF c.recv \in Types THEN prog.cg[c.recv] ELSE NoFn IN
       IF f = NoFn \/ FnTable[f].name # c.name THEN cands
       ELSE LET tfs == typedSignatureInitial(f) IN
            IF ~isInitialTypedSignatureApplicable(tfs, c).ok THEN cands
            ELSE IF ~tfs.needsInstantiation THEN Append(cands, tfs)
            ELSE Append(cands, doIsCandidateApplicableInstantiating(tfs, c).sig)

(***************************************************************************)
(* Forwarding: the declarations of a type and the cycle check.             *)
(***************************************************************************)
\* a forwarding declaration: 'forwarding <field decl>' (kind "field") or
\* 'forwarding <expr>' (kind "expr"), and the type it forwards to
Fwd(k, t) == [kind |-> k, to |-> t]

\* typeUsesForwarding: the aggregate holds a forwarding declaration
typeUsesForwarding(t) == t \in Types /\ Len(prog.fwd[t]) > 0

\* the forwardings fieldsForTypeDeclQuery collects: only those whose
\* expression is a declaration (isForwardingField)
FieldForwards(t) == SelectSeq(prog.fwd[t], LAMBDA f : f.kind = "field")

\* the forwardings resolveForwardingExprs collects: all the others
resolveForwardingExprs(t) == SelectSeq(prog.fwd[t], LAMBDA f : f.kind = "expr")

RECURSIVE checkForwardingCycles(_, _)
RECURSIVE CheckForwards(_, _, _)
\* checkForwardingCycles(context, ct, visited): st carries the visited set
\* (passed by reference), the errors emitted, and the value returned
checkForwardingCycles(ct, st) ==
  IF typeUsesForwarding(ct)
  THEN IF ct \in st.visited
       THEN [st EXCEPT !.errs = Append(@, ct), !.cyc = TRUE]
       ELSE CheckForwards(FieldForwards(ct), 1,
                          [st EXCEPT !.visited = @ \cup {ct}])
  ELSE [st EXCEPT !.cyc = FALSE]

\* the loop over r.forwardingToType(i) of checkForwardingCycles
CheckForwards(r, i, st) ==
  IF i > Len(r) THEN [st EXCEPT !.cyc = FALSE]
  ELSE IF r[i].to \notin Types THEN CheckForwards(r, i + 1, st)
  ELSE LET s2 == checkForwardingCycles(r[i].to, st) IN
       IF s2.cyc THEN s2 ELSE CheckForwards(r, i + 1, s2)

\* forwardingCycleCheckQuery: memoized per composite type; the errors of a
\* query are emitted when it runs, not when its result is read again
forwardingCycleCheckQuery(ct, memo, ds) ==
  IF memo[ct] # "none"
  THEN [cyc |-> (memo[ct] = "cycle"), memo |-> memo, diags |-> ds]
  ELSE LET r == checkForwardingCycles(ct, [visited |-> {}, errs |-> <<>>, cyc |-> FALSE])
       IN [cyc |-> r.cyc,
           memo |-> [memo EXCEPT ![ct] = IF r.cyc THEN "cycle" ELSE "nocycle"],
           diags |-> ds \o r.errs]

emitErrorForForwardingCycles(ct, memo, ds) ==
  IF typeUsesForwarding(ct) THEN forwardingCycleCheckQuery(ct, memo, ds)
  ELSE [cyc |-> FALSE, memo |-> memo, diags |-> ds]

(***************************************************************************)
(* gatherAndFilterCandidatesForwarding, up to its recursive calls.         *)
(***************************************************************************)
\* std::vector::resize
Resize(s, n) ==
  IF Len(s) >= n THEN SubSeq(s, 1, n) ELSE s \o [i \in 1..(n - Len(s)) |-> NoType]

helpComputeForwardingTo(fci, start, cands, forwardingTo) ==
  Resize(forwardingTo, start) \o [i \in 1..(Len(cands) - start) |-> fci.recv]

\* the candidates found for fci, appended to the non-POI or POI vector, and
\* the forwardingTo vector updated for them
FwdAppend(out, toPoi, fci, start, cs) ==
  IF toPoi
  THEN [out EXCEPT !.poi = cs, !.poiTo = helpComputeForwardingTo(fci, start, cs, @)]
  ELSE [out EXCEPT !.nonPoi = cs,
                   !.nonPoiTo = helpComputeForwardingTo(fci, start, cs, @)]

RECURSIVE FwdCompilerGenerated(_, _, _)
\* the first loop over forwardingCis: compiler-generated candidates
FwdCompilerGenerated(fcis, i, out) ==
  IF i > Len(fcis) THEN out
  ELSE FwdCompilerGenerated(fcis, i + 1,
         FwdAppend(out, FALSE, fcis[i], Len(out.nonPoi),
                   considerCompilerGeneratedCandidates(fcis[i], out.nonPoi)))

\* the candidates of one forwardingCi in one scope: the lookup, the initial
\* filter, the instantiating filter (no rejected list)
FwdCandidates(scope, fci, vis, old) ==
  LET v == lookupCalledExpr(scope, fci, vis)
      initialCandidates == filterCandidatesInitial(v, fci)
  IN filterCandidatesInstantiating(initialCandidates, fci, old, <<>>, FALSE).result

RECURSIVE FwdLookup(_, _, _, _, _)
\* one loop over forwardingCis looking the name up in a scope; toPoi says
\* whether the candidates go to poiCandidates; st.vis[i] is visited[i]
FwdLookup(scope, fcis, i, st, toPoi) ==
  IF i > Len(fcis) THEN st
  ELSE LET old == IF toPoi THEN st.out.poi ELSE st.out.nonPoi IN
       FwdLookup(scope, fcis, i + 1,
                 [out |-> FwdAppend(st.out, toPoi, fcis[i], Len(old),
                                    FwdCandidates(scope, fcis[i], st.vis[i], old)),
                  vis |-> [st.vis EXCEPT ![i] = @ \cup {scope}]],
                 toPoi)

RECURSIVE FwdPoiLoop(_, _, _)
\* the loop over curPoi = inPoiScope, curPoi->inFnPoi(), ...
FwdPoiLoop(chain, fcis, st) ==
  IF chain = <<>> \/ st.out.nonPoi # <<>> \/ st.out.poi # <<>> THEN st
  ELSE FwdPoiLoop(Tail(chain), fcis, FwdLookup(Head(chain), fcis, 1, st, TRUE))

RECURSIVE ForwardingCis(_, _)
\* the CallInfos with the receiver replaced by each forwarded-to type; a
\* forwarding whose type is unknown is skipped
ForwardingCis(forwards, c) ==
  IF forwards = <<>> THEN <<>>
  ELSE IF Head(forwards).to \notin Types THEN ForwardingCis(Tail(forwards), c)
  ELSE <<CallInfo(c.name, c.isMethodCall, FALSE, Head(forwards).to)>>
         \o ForwardingCis(Tail(forwards), c)

ExemptFromForwarding(name) == name \in {"init", "init=", "deinit"}

\* whether gatherAndFilterCandidatesForwarding considers the forwarding of
\* the receiver type: the name is not exempt, and fieldsForTypeDecl or
\* resolveForwardingExprs holds a forwarding
ConsiderForwards(c) ==
  /\ ~ExemptFromForwarding(c.name)
  /\ c.recv \in Types
  /\ (Len(FieldForwards(c.recv)) > 0 \/ Len(resolveForwardingExprs(c.recv)) > 0)

\* the cycle check made when the forwarding is considered
ForwardingCheck(c, memo, ds) ==
  IF ConsiderForwards(c) THEN emitErrorForForwardingCycles(c.recv, memo, ds)
  ELSE [cyc |-> FALSE, memo |-> memo, diags |-> ds]

\* ResolvedFields forwards: the field forwardings, then the expressions
ForwardsOf(c, cycleFound) ==
  IF ConsiderForwards(c) /\ ~cycleFound
  THEN FieldForwards(c.recv) \o resolveForwardingExprs(c.recv)
  ELSE <<>>

\* the three sweeps over forwardingCis: compiler-generated, without POI,
\* with POI
FwdSweeps(fcis, out) ==
  FwdPoiLoop(prog.poiChain, fcis,
             FwdLookup(LexScope, fcis, 1,
                       [out |-> FwdCompilerGenerated(fcis, 1, out),
                        vis |-> [i \in 1..Len(fcis) |-> {}]],
                       FALSE)).out

\* the frame left on the stack: the receiver, the forwardingCis, the index
\* of the loop of recursive calls, and the test made before that loop
FwdFrame(c, fcis, out) ==
  [recv |-> c.recv, fcis |-> fcis, i |-> 1,
   recurse |-> (fcis # <<>> /\ out.nonPoi = <<>> /\ out.poi = <<>>)]

FwdResult(c, chk, fcis, out) ==
  [out |-> out, memo |-> chk.memo, diags |-> chk.diags, frame |-> FwdFrame(c, fcis, out)]

FwdWithCis(c, out, chk, forwards, fcis) ==
  FwdResult(c, chk, fcis, IF forwards = <<>> THEN out ELSE FwdSweeps(fcis, out))

FwdWithForwards(c, out, chk, forwards) ==
  FwdWithCis(c, out, chk, forwards, ForwardingCis(forwards, c))

FwdWithCheck(c, out, chk) == FwdWithForwards(c, out, chk, ForwardsOf(c, chk.cyc))

\* The body of gatherAndFilterCandidatesForwarding for CallInfo c, up to the
\* loop of recursive calls: the forwards considered, the cycle query, the
\* three candidate sweeps
ForwardingBody(c, out, memo, ds) == FwdWithCheck(c, out, ForwardingCheck(c, memo, ds))

\* the next forwardingCi, from index i on, the loop of recursive calls
\* recurses into: a method call whose receiver type uses forwarding
NextRecursion(frame) ==
  {j \in frame.i..Len(frame.fcis) :
     /\ frame.fcis[j].isMethodCall /\ frame.fcis[j].recv # NoType
     /\ typeUsesForwarding(frame.fcis[j].recv)
     /\ \A k \in frame.i..(j - 1) :
          ~(frame.fcis[k].isMethodCall /\ typeUsesForwarding(frame.fcis[k].recv))}

EmptyFwdOut == [nonPoi |-> <<>>, poi |-> <<>>, nonPoiTo |-> <<>>, poiTo |-> <<>>]

(***************************************************************************)
(* The drivers.                                                            *)
(***************************************************************************)
InMethodEntries == {"resolveCallInMethod", "resolveGeneratedCallInMethod"}
GeneratedEntries == {"resolveGeneratedCall", "resolveGeneratedCallInMethod"}

\* a variant that does not look at the name of the call
AttemptImplicitReceiverAnyName(c, recv) ==
  ~c.isMethodCall /\ ~c.isOpCall /\ recv # NoType

shouldAttemptImplicitReceiver(c, recv) ==
  /\ ~c.isMethodCall
  /\ ~c.isOpCall
  /\ recv # NoType
  /\ c.name # ""
  /\ c.name \notin {"?", "owned", "shared", "borrowed", "unmanaged"}

\* CallInfo::createWithReceiver
createWithReceiver(c, recv) == CallInfo(c.name, TRUE, FALSE, recv)

\* isInsideForwarding: a null call is inside nothing
isInsideForwarding(cl) == ~cl.isNull /\ cl.insideForwarding

\* a variant that does not look at where the call is written
ConsidersForwardingAnywhere(c, cl, cands) ==
  /\ cands = <<>> /\ c.isMethodCall /\ c.recv # NoType
  /\ typeUsesForwarding(c.recv)

\* the test gatherAndFilterCandidates makes before it considers forwarding
ConsidersForwarding(c, cl, cands) ==
  /\ cands = <<>> /\ c.isMethodCall /\ c.recv # NoType
  /\ typeUsesForwarding(c.recv)
  /\ ~isInsideForwarding(cl)

\* one candidate source searched: which, for what receiver, in what scope,
\* and how many candidates there were before
Searched(src, recv, scope, before) ==
  [src |-> src, recv |-> recv, scope |-> scope, before |-> before]

\* one resolution made by a driver: with which CallInfo, and whether it found
\* candidates (FALSE until findMostSpecificAndCheck has run)
Attempt(stg) == [as |-> stg, found |-> FALSE]

NoResult == [found |-> FALSE, sigs |-> {}, poiFnIdsUsed |-> {}, stage |-> "none"]

\* resolveFnCall begins: the locals of gatherAndFilterCandidates
BeginFnCall ==
  /\ candidates' = <<>>
  /\ firstPoiCandidate' = 0
  /\ forwardingInfo' = <<>>
  /\ poiLeft' = <<>>
  /\ visited' = {}
  /\ fstack' = <<>>
  /\ fwdOut' = EmptyFwdOut
  /\ searched' = <<>>
  /\ mostSpecific' = {}
  /\ pc' = "cg"

\* One of the four entry points is called for a call site of the program.
StartCall ==
  /\ pc = "idle"
  /\ ncalls < MaxCalls
  /\ \E site \in prog.calls :
       LET first == IF site.entry \in InMethodEntries
                       /\ shouldAttemptImplicitReceiver(site.ci, site.implicitReceiver)
                    THEN "method" ELSE "written"
       IN /\ entry' = site.entry
          /\ written' = site.ci
          /\ implicitReceiver' = site.implicitReceiver
          /\ call' = [isNull |-> site.entry \in GeneratedEntries,
                      insideForwarding |-> site.insideForwarding]
          /\ wantRejected' = site.wantRejected
          /\ stage' = first
          /\ ci' = IF first = "method"
                   THEN createWithReceiver(site.ci, site.implicitReceiver)
                   ELSE site.ci
          /\ attempts' = <<Attempt(first)>>
  /\ rejected' = <<>>
  /\ result' = NoResult
  /\ BeginFnCall
  /\ UNCHANGED <<prog, cycleMemo, diags, ncalls>>
  /\ UNCHANGED <<fieldVars, bodyVars, instVars, exprVars, topoVars, sigVars>>

\* gatherAndFilterCandidates: compiler-generated candidates
ConsiderCompilerGenerated ==
  /\ pc = "cg"
  /\ candidates' = considerCompilerGeneratedCandidates(ci, candidates)
  /\ searched' = Append(searched, Searched("cg", ci.recv, NoScope, Len(candidates)))
  /\ pc' = "lex"
  /\ UNCHANGED <<prog, entry, call, written, implicitReceiver, stage, ci,
                 firstPoiCandidate, forwardingInfo, rejected, wantRejected, poiLeft,
                 visited, fstack, fwdOut, cycleMemo, diags, attempts, mostSpecific,
                 result, ncalls>>
  /\ UNCHANGED <<fieldVars, bodyVars, instVars, exprVars, topoVars, sigVars>>

\* one lookup of gatherAndFilterCandidates in a scope: the initial filter,
\* the rejections, the instantiating filter
GatherInScope(scope) ==
  LET v == lookupCalledExpr(scope, ci, visited)
      first == filterCandidatesInitialGatherRejected(v, ci, wantRejected)
      rej1 == IF wantRejected THEN rejected \o first.rejected ELSE rejected
  IN filterCandidatesInstantiating(first.matching, ci, candidates, rej1, wantRejected)

\* a variant of the loop test that does not stop at the first candidate
PoiLoopNeverBreaks(left, cands) == left # <<>>

\* the POI loop goes on: there is a scope left and no candidate was found
PoiLoopContinues(left, cands) == left # <<>> /\ cands = <<>>

Gathered(got) ==
  /\ candidates' = got.result
  /\ rejected' = got.rejected

\* gatherAndFilterCandidates: candidates without using POI
LexicalLookup ==
  /\ pc = "lex"
  /\ Gathered(GatherInScope(LexScope))
  /\ firstPoiCandidate' = Len(candidates')
  /\ visited' = visited \cup {LexScope}
  /\ searched' = Append(searched, Searched("lex", ci.recv, LexScope, Len(candidates)))
  /\ poiLeft' = prog.poiChain
  /\ pc' = "poi"
  /\ UNCHANGED <<prog, entry, call, written, implicitReceiver, stage, ci,
                 forwardingInfo, wantRejected, fstack, fwdOut, cycleMemo, diags,
                 attempts, mostSpecific, result, ncalls>>
  /\ UNCHANGED <<fieldVars, bodyVars, instVars, exprVars, topoVars, sigVars>>

\* gatherAndFilterCandidates: one iteration of the loop over the POI chain
PoiLookup ==
  /\ pc = "poi"
  /\ PoiLoopContinues(poiLeft, candidates)
  /\ Gathered(GatherInScope(Head(poiLeft)))
  /\ visited' = visited \cup {Head(poiLeft)}
  /\ searched' = Append(searched, Searched("poi", ci.recv, Head(poiLeft), Len(candidates)))
  /\ poiLeft' = Tail(poiLeft)
  /\ UNCHANGED <<prog, pc, entry, call, written, implicitReceiver, stage, ci,
                 firstPoiCandidate, forwardingInfo, wantRejected, fstack, fwdOut,
                 cycleMemo, diags, attempts, mostSpecific, result, ncalls>>
  /\ UNCHANGED <<fieldVars, bodyVars, instVars, exprVars, topoVars, sigVars>>

\* the POI loop ends: the chain is exhausted or a candidate has been found
PoiDone ==
  /\ pc = "poi"
  /\ ~PoiLoopContinues(poiLeft, candidates)
  /\ pc' = "fwd"
  /\ UNCHANGED <<prog, entry, call, written, implicitReceiver, stage, ci, candidates,
                 firstPoiCandidate, forwardingInfo, rejected, wantRejected, poiLeft,
                 visited, fstack, fwdOut, cycleMemo, diags, searched, attempts,
                 mostSpecific, result, ncalls>>
  /\ UNCHANGED <<fieldVars, bodyVars, instVars, exprVars, topoVars, sigVars>>

\* gatherAndFilterCandidates does not consider forwarding
ForwardingSkip ==
  /\ pc = "fwd"
  /\ ~ConsidersForwarding(ci, call, candidates)
  /\ pc' = "disamb"
  /\ UNCHANGED <<prog, entry, call, written, implicitReceiver, stage, ci, candidates,
                 firstPoiCandidate, forwardingInfo, rejected, wantRejected, poiLeft,
                 visited, fstack, fwdOut, cycleMemo, diags, searched, attempts,
                 mostSpecific, result, ncalls>>
  /\ UNCHANGED <<fieldVars, bodyVars, instVars, exprVars, topoVars, sigVars>>

\* the forwarded-to types a frame has searched
FwdSearched(frame, before) ==
  [i \in 1..Len(frame.fcis) |-> Searched("fwd", frame.fcis[i].recv, NoScope, before)]

\* a call of gatherAndFilterCandidatesForwarding runs up to its loop of
\* recursive calls, on top of the frames of its callers
EnterForwarding(callers, body) ==
  /\ fstack' = Append(callers, body.frame)
  /\ fwdOut' = body.out
  /\ cycleMemo' = body.memo
  /\ diags' = body.diags
  /\ searched' = searched \o FwdSearched(body.frame, Len(candidates))

\* gatherAndFilterCandidates calls gatherAndFilterCandidatesForwarding
ForwardingCall ==
  /\ pc = "fwd"
  /\ ConsidersForwarding(ci, call, candidates)
  /\ EnterForwarding(<<>>, ForwardingBody(ci, EmptyFwdOut, cycleMemo, diags))
  /\ pc' = "fwdrun"
  /\ UNCHANGED <<prog, entry, call, written, implicitReceiver, stage, ci, candidates,
                 firstPoiCandidate, forwardingInfo, rejected, wantRejected, poiLeft,
                 visited, attempts, mostSpecific, result, ncalls>>
  /\ UNCHANGED <<fieldVars, bodyVars, instVars, exprVars, topoVars, sigVars>>

\* gatherAndFilterCandidatesForwarding calls itself for a forwarded-to type
\* that uses forwarding (forwarding-to-forwarding)
ForwardingRecurse ==
  /\ pc = "fwdrun"
  /\ fstack # <<>>
  /\ Len(fstack) < MaxDepth
  /\ LET top == fstack[Len(fstack)] IN
       /\ top.recurse
       /\ \E j \in NextRecursion(top) :
            EnterForwarding([fstack EXCEPT ![Len(fstack)].i = j + 1],
                            ForwardingBody(top.fcis[j], fwdOut, cycleMemo, diags))
  /\ UNCHANGED <<prog, pc, entry, call, written, implicitReceiver, stage, ci,
                 candidates, firstPoiCandidate, forwardingInfo, rejected, wantRejected,
                 poiLeft, visited, attempts, mostSpecific, result, ncalls>>
  /\ UNCHANGED <<fieldVars, bodyVars, instVars, exprVars, topoVars, sigVars>>

\* a recursive call of gatherAndFilterCandidatesForwarding returns
ForwardingReturn ==
  /\ pc = "fwdrun"
  /\ Len(fstack) > 1
  /\ LET top == fstack[Len(fstack)] IN ~top.recurse \/ NextRecursion(top) = {}
  /\ fstack' = SubSeq(fstack, 1, Len(fstack) - 1)
  /\ UNCHANGED <<prog, pc, entry, call, written, implicitReceiver, stage, ci,
                 candidates, firstPoiCandidate, forwardingInfo, rejected, wantRejected,
                 poiLeft, visited, fwdOut, cycleMemo, diags, searched, attempts,
                 mostSpecific, result, ncalls>>
  /\ UNCHANGED <<fieldVars, bodyVars, instVars, exprVars, topoVars, sigVars>>

\* the outermost call returns: gatherAndFilterCandidates appends the
\* non-POI candidates, then the POI candidates
ForwardingDone ==
  /\ pc = "fwdrun"
  /\ Len(fstack) = 1
  /\ LET top == fstack[1] IN ~top.recurse \/ NextRecursion(top) = {}
  /\ fstack' = <<>>
  /\ candidates' = candidates \o fwdOut.nonPoi \o fwdOut.poi
  /\ forwardingInfo' = forwardingInfo \o fwdOut.nonPoiTo \o fwdOut.poiTo
  /\ firstPoiCandidate' = Len(candidates) + Len(fwdOut.nonPoi)
  /\ pc' = "disamb"
  /\ UNCHANGED <<prog, entry, call, written, implicitReceiver, stage, ci, rejected,
                 wantRejected, poiLeft, visited, fwdOut, cycleMemo, diags, searched,
                 attempts, mostSpecific, result, ncalls>>
  /\ UNCHANGED <<fieldVars, bodyVars, instVars, exprVars, topoVars, sigVars>>

\* findMostSpecificAndCheck: findMostSpecificCandidates picks the best
\* candidates (here: at most one, or none when the call is ambiguous); the
\* selected candidates found through POI are noted in the PoiInfo
\* the id of the call node of the call being resolved
CallId == ncalls + 1

\* an id read through a null call pointer, when the read does not trap
NoCallId == 0

\* the candidates at or after firstPoiCandidate that equal a selected one
NotedFromPoi(cands, first, ms) ==
  {k \in (first + 1)..Len(cands) : \E i \in ms : cands[i] = cands[k]}

\* poiInfo.addIds(id, candidate.fn()->id()) for each of them
MostSpecificResult(ms, id) ==
  [found |-> ms # {},
   sigs |-> {candidates[i] : i \in ms},
   poiFnIdsUsed |-> {<<id, candidates[k].fn>> :
                       k \in NotedFromPoi(candidates, firstPoiCandidate, ms)},
   stage |-> stage]

FindMostSpecific ==
  /\ pc = "disamb"
  /\ \E ms \in {{}} \cup {{i} : i \in 1..Len(candidates)} :
       /\ mostSpecific' = ms
       /\ \/ /\ ~call.isNull \/ NotedFromPoi(candidates, firstPoiCandidate, ms) = {}
             /\ result' = MostSpecificResult(ms, CallId)
             /\ attempts' = [attempts EXCEPT ![Len(attempts)].found = (ms # {})]
             /\ pc' = "ret"
          \* call->id() of a null call: the read traps, or gives some id
          \/ /\ call.isNull /\ NotedFromPoi(candidates, firstPoiCandidate, ms) # {}
             /\ \/ /\ pc' = "crashed"
                   /\ UNCHANGED <<result, attempts>>
                \/ /\ result' = MostSpecificResult(ms, NoCallId)
                   /\ attempts' = [attempts EXCEPT ![Len(attempts)].found = (ms # {})]
                   /\ pc' = "ret"
  /\ UNCHANGED <<prog, entry, call, written, implicitReceiver, stage, ci, candidates,
                 firstPoiCandidate, forwardingInfo, rejected, wantRejected, poiLeft,
                 visited, fstack, fwdOut, cycleMemo, diags, searched, ncalls>>
  /\ UNCHANGED <<fieldVars, bodyVars, instVars, exprVars, topoVars, sigVars>>

\* resolveCallInMethod / resolveGeneratedCallInMethod: the first resolution
\* found no candidate, the call is resolved with the other CallInfo
Retry ==
  /\ pc = "ret"
  /\ stage = "method"
  /\ ~result.found
  /\ stage' = "written"
  /\ ci' = written
  /\ attempts' = Append(attempts, Attempt("written"))
  /\ BeginFnCall
  /\ UNCHANGED <<prog, entry, call, written, implicitReceiver, rejected, wantRejected,
                 cycleMemo, diags, result, ncalls>>
  /\ UNCHANGED <<fieldVars, bodyVars, instVars, exprVars, topoVars, sigVars>>

\* the entry point returns its CallResolutionResult
Return ==
  /\ pc = "ret"
  /\ ~(stage = "method" /\ ~result.found)
  /\ pc' = "idle"
  /\ ncalls' = ncalls + 1
  /\ UNCHANGED <<prog, entry, call, written, implicitReceiver, stage, ci, candidates,
                 firstPoiCandidate, forwardingInfo, rejected, wantRejected, poiLeft,
                 visited, fstack, fwdOut, cycleMemo, diags, searched, attempts,
                 mostSpecific, result>>
  /\ UNCHANGED <<fieldVars, bodyVars, instVars, exprVars, topoVars, sigVars>>

CallNext ==
  \/ StartCall
  \/ ConsiderCompilerGenerated
  \/ LexicalLookup
  \/ PoiLookup
  \/ PoiDone
  \/ ForwardingSkip
  \/ ForwardingCall
  \/ ForwardingRecurse
  \/ ForwardingReturn
  \/ ForwardingDone
  \/ FindMostSpecific
  \/ Retry
  \/ Return

(***************************************************************************)
(* Programs and call sites.                                                *)
(***************************************************************************)
Site(e, c, recv, inFwd, wantRej) ==
  [entry |-> e, ci |-> c, implicitReceiver |-> recv, insideForwarding |-> inFwd,
   wantRejected |-> wantRej]

MethodFoo(t) == CallInfo("foo", TRUE, FALSE, t)
PlainFoo == CallInfo("foo", FALSE, FALSE, NoType)

Sites ==
  {Site("resolveCall", MethodFoo(1), NoType, FALSE, TRUE),
   Site("resolveCall", MethodFoo(1), NoType, TRUE, FALSE),
   Site("resolveCall", PlainFoo, NoType, FALSE, TRUE),
   Site("resolveCall", CallInfo("init", TRUE, FALSE, 1), NoType, FALSE, FALSE),
   Site("resolveCallInMethod", PlainFoo, 1, FALSE, TRUE),
   Site("resolveCallInMethod", PlainFoo, 2, FALSE, FALSE),
   Site("resolveCallInMethod", PlainFoo, NoType, FALSE, FALSE),
   Site("resolveCallInMethod", MethodFoo(1), 1, FALSE, FALSE),
   Site("resolveCallInMethod", CallInfo("foo", FALSE, TRUE, 1), 1, FALSE, FALSE),
   Site("resolveGeneratedCall", MethodFoo(1), NoType, FALSE, FALSE),
   Site("resolveGeneratedCallInMethod", PlainFoo, 1, FALSE, FALSE),
   Site("resolveGeneratedCallInMethod", CallInfo("owned", FALSE, FALSE, NoType), 1,
        FALSE, FALSE)}

\* the call sites of the programs that vary the forwarding and the POI chain
ChainSites ==
  {Site("resolveCall", MethodFoo(1), NoType, FALSE, TRUE),
   Site("resolveCall", MethodFoo(1), NoType, TRUE, FALSE),
   Site("resolveCallInMethod", PlainFoo, 1, FALSE, TRUE),
   Site("resolveGeneratedCall", MethodFoo(1), NoType, FALSE, FALSE)}

NoForwarding == [t \in Types |-> <<>>]
NoCg == [t \in Types |-> NoFn]

\* forwarding declarations of the programs of SpecCall
ForwardingShapes ==
  {NoForwarding,
   [NoForwarding EXCEPT ![1] = <<Fwd("field", 2)>>],
   [NoForwarding EXCEPT ![1] = <<Fwd("expr", 2)>>, ![2] = <<Fwd("field", 3)>>],
   [NoForwarding EXCEPT ![1] = <<Fwd("field", 2)>>, ![2] = <<Fwd("field", 1)>>],
   [NoForwarding EXCEPT ![1] = <<Fwd("field", 2), Fwd("expr", 3)>>],
   [NoForwarding EXCEPT ![1] = <<Fwd("field", NoType)>>]}

\* the user functions, and the declarations visible in the lexical scope
UserFns == {f \in FnIds : ~FnTable[f].cgen}
LexicalDecls ==
  {<<>>} \cup {<<f>> : f \in UserFns}
         \cup {<<1, 5>>, <<6, 1>>, <<2, 6>>, <<5, 13>>, <<13, 1>>, <<9, 8>>}

\* the POI chain: scopes 2, 3, ... in order
PoiChains == {[i \in 1..n |-> i + 1] : n \in 0..MaxPoi}
PoiDecls == {<<>>, <<1>>, <<6>>, <<10>>}
ChainLexicalDecls == {<<>>, <<1>>, <<6>>, <<13>>, <<11, 10>>, <<12>>}

\* programs that vary the lexical scope and the compiler-generated methods
FilterPrograms ==
  {[fwd |-> NoForwarding,
    scopes |-> [s \in Scopes |-> IF s = LexScope THEN lex ELSE <<>>],
    poiChain |-> <<>>,
    cg |-> [NoCg EXCEPT ![1] = g],
    calls |-> {site}] :
     lex \in LexicalDecls, g \in {NoFn, 15, 16}, site \in Sites}

\* programs that vary the POI chain and the forwarding declarations
ChainPrograms ==
  {[fwd |-> fw,
    scopes |-> sc,
    poiChain |-> chain,
    cg |-> NoCg,
    calls |-> {site}] :
     fw \in ForwardingShapes,
     sc \in {s \in [Scopes -> ChainLexicalDecls \cup PoiDecls] :
               /\ s[LexScope] \in ChainLexicalDecls
               /\ \A k \in Scopes \ {LexScope} : s[k] \in PoiDecls},
     chain \in PoiChains,
     site \in ChainSites}

\* a scope that is not on the POI chain declares nothing
ChainProgramsUsed ==
  {p \in ChainPrograms :
     \A k \in Scopes \ {LexScope} : k \notin Range(p.poiChain) => p.scopes[k] = <<>>}

\* no type declaration, no field query made
IdleFields ==
  /\ fprog = <<>>
  /\ fmemo = <<>>
  /\ glog = {}
  /\ flog = {}
  /\ nqueries = 0
  /\ tuplog = <<>>

\* no function body, no body resolved
IdleBody ==
  /\ bprog = <<>>
  /\ bstack = <<>>
  /\ bmemo = <<>>
  /\ pmemo = {}
  /\ blog = <<>>
  /\ btop = 0

\* no candidate list handed to the instantiating filter
IdleInst ==
  /\ iprog = <<>>
  /\ ipc = "idle"
  /\ ifilter = <<>>
  /\ iloc = <<>>
  /\ ilog = <<>>
  /\ ninst = 0

\* no built-in expression resolved
IdleExprs == elog = <<>> /\ nexprs = 0

\* no signature query made
IdleSigs == slog = <<>> /\ tclog = <<>> /\ nsigs = 0

IdleTopo ==
  /\ tmach = <<>>
  /\ tpc = "idle"
  /\ physAccSet = {}
  /\ physReservedSet = {}
  /\ logAccSet = {}
  /\ numCPUsPhysAcc = -1
  /\ numCPUsLogAcc = -1
  /\ okToReserveCPU = TRUE
  /\ socket = -1
  /\ oversubscribed = FALSE
  /\ partitioned = FALSE
  /\ tbound = {}
  /\ tlog = <<>>
  /\ granted = {}
  /\ queried = FALSE

IdleCall ==
  /\ pc = "idle"
  /\ entry = "none"
  /\ call = [isNull |-> FALSE, insideForwarding |-> FALSE]
  /\ written = PlainFoo
  /\ implicitReceiver = NoType
  /\ stage = "written"
  /\ ci = PlainFoo
  /\ candidates = <<>>
  /\ firstPoiCandidate = 0
  /\ forwardingInfo = <<>>
  /\ rejected = <<>>
  /\ wantRejected = FALSE
  /\ poiLeft = <<>>
  /\ visited = {}
  /\ fstack = <<>>
  /\ fwdOut = EmptyFwdOut
  /\ cycleMemo = [t \in Types |-> "none"]
  /\ diags = <<>>
  /\ searched = <<>>
  /\ attempts = <<>>
  /\ mostSpecific = {}
  /\ result = NoResult
  /\ ncalls = 0

InitCall ==
  /\ prog \in FilterPrograms \cup ChainProgramsUsed
  /\ IdleCall
  /\ IdleFields
  /\ IdleBody
  /\ IdleInst
  /\ IdleExprs
  /\ IdleTopo
  /\ IdleSigs

SpecCall == InitCall /\ [][CallNext]_vars

\* C3: a candidate whose where clause is false is never selected: neither
\* the candidates handed to disambiguation, nor the candidates gathered
\* through forwarding, nor the most specific candidates returned carry
\* WHERE_FALSE.
C3_WhereFalseNeverSelected ==
  /\ \A i \in 1..Len(candidates) : candidates[i].where # "WHERE_FALSE"
  /\ \A i \in 1..Len(fwdOut.nonPoi) : fwdOut.nonPoi[i].where # "WHERE_FALSE"
  /\ \A i \in 1..Len(fwdOut.poi) : fwdOut.poi[i].where # "WHERE_FALSE"
  /\ \A sig \in result.sigs : sig.where # "WHERE_FALSE"

\* a call returned a candidate although a candidate of the same lookup was
\* rejected for its where clause
C3_RejectedForWhere ==
  /\ pc = "ret" /\ result.found
  /\ \E i \in 1..Len(rejected) : rejected[i].reason = "FAIL_WHERE_CLAUSE"

\* C20: the rejected list passed to resolveCall receives exactly the
\* rejected candidates: every entry is a failure carrying a reason, a
\* candidate pushed to the candidate list is never also appended to it, and
\* nothing is collected when the caller passes no list.
C20_RejectedAreFailures ==
  /\ \A i \in 1..Len(rejected) :
       /\ ~rejected[i].ok
       /\ rejected[i].reason # "none"
       /\ \A j \in 1..Len(candidates) : rejected[i] # Success(candidates[j])
  /\ ~wantRejected => rejected = <<>>

\* the selected candidates found through a point-of-instantiation scope
SelectedFromPoi == {i \in mostSpecific : i > firstPoiCandidate}

\* C27: a (callID, calleeID) pair is in the caller's PoiInfo iff the callee
\* is a selected most-specific candidate whose index in the candidate list
\* is at or after firstPoiCandidate.
C27_PoiPairsRecorded ==
  pc = "ret" =>
    result.poiFnIdsUsed = {<<CallId, candidates[i].fn>> : i \in SelectedFromPoi}

\* C28: the entry points that resolve without a call node never read the
\* missing node: the resolution completes and no id read through the null
\* call is in the result.
C28_NullCallNeverRead ==
  call.isNull =>
    /\ pc # "crashed"
    /\ \A p \in result.poiFnIdsUsed : p[1] # NoCallId

SourceRank(src) ==
  CASE src = "cg" -> 1 [] src = "lex" -> 2 [] src = "poi" -> 3 [] src = "fwd" -> 4

PoiSearched == SelectSeq(searched, LAMBDA e : e.src = "poi")

\* C7 (as the code has it): the sources are searched in the order
\* compiler-generated, lexical, POI scopes along the chain, forwarding; the
\* lexical scope is searched whatever the compiler-generated methods
\* produced; a POI scope or a forwarded-to type is searched only when no
\* candidate has been found before.
C7_SourceOrder ==
  /\ \A i, j \in 1..Len(searched) :
       i < j => SourceRank(searched[i].src) <= SourceRank(searched[j].src)
  /\ Len(searched) >= 1 => searched[1].src = "cg"
  /\ Len(searched) >= 2 => searched[2].src = "lex"
  /\ pc \in {"poi", "fwd", "fwdrun", "disamb", "ret"} => Len(searched) >= 2
  /\ \A i \in 1..Len(searched) :
       searched[i].src \in {"poi", "fwd"} => searched[i].before = 0
  /\ Len(PoiSearched) <= Len(prog.poiChain)
  /\ \A k \in 1..Len(PoiSearched) : PoiSearched[k].scope = prog.poiChain[k]

\* the lexical scope was searched after a compiler-generated method had been
\* found
C7_LexicalAfterCompilerGenerated ==
  \E i \in 1..Len(searched) : searched[i].src = "lex" /\ searched[i].before > 0

\* C7 as stated: a source other than the first is searched only when no
\* candidate has been found before.
C7_StopsAtFirstSource ==
  \A i \in 1..Len(searched) : searched[i].src # "cg" => searched[i].before = 0

\* C8: forwarding candidates are gathered only for a method call with a
\* receiver whose type uses forwarding, written outside a forwarding
\* declaration, and for which the compiler-generated, lexical and POI
\* lookups found no candidate; otherwise no forwarded-to type is searched
\* and forwardingInfo stays empty.
C8_ForwardingOnlyWhen ==
  (\/ pc = "fwdrun"
   \/ forwardingInfo # <<>>
   \/ \E i \in 1..Len(searched) : searched[i].src = "fwd")
  => /\ ci.isMethodCall /\ ci.recv # NoType
     /\ typeUsesForwarding(ci.recv)
     /\ ~isInsideForwarding(call)
     /\ Len(forwardingInfo) = Len(candidates)
     /\ \A i \in 1..Len(searched) : searched[i].before = 0

\* forwarding produced a candidate
C8_ForwardedCandidate == pc = "disamb" /\ forwardingInfo # <<>>

\* the calls for which the drivers build a method call on the implicit
\* receiver
ImplicitReceiverCase ==
  /\ entry \in InMethodEntries
  /\ ~written.isMethodCall /\ ~written.isOpCall
  /\ implicitReceiver # NoType
  /\ written.name \notin {"", "?", "owned", "shared", "borrowed", "unmanaged"}

\* C9 (as the code has it): for a non-method, non-operator call with an
\* implicit receiver (and a name that is none of ?, owned, shared, borrowed,
\* unmanaged), the method call on the implicit receiver is resolved first
\* and returned when it finds candidates; the call as written is resolved
\* only when the method call found none.  Every other call is resolved as
\* written only.
C9_MethodFirst ==
  attempts # <<>> =>
    /\ ImplicitReceiverCase =>
         /\ attempts[1].as = "method"
         /\ Len(attempts) = 2 => attempts[2].as = "written" /\ ~attempts[1].found
         /\ (pc = "idle" /\ attempts[1].found) => Len(attempts) = 1 /\ result.stage = "method"
    /\ ~ImplicitReceiverCase => Len(attempts) = 1 /\ attempts[1].as = "written"
    /\ Len(attempts) <= 2

\* the method call on the implicit receiver found a candidate and was returned
C9_MethodTookPrecedence ==
  /\ pc = "idle" /\ ImplicitReceiverCase
  /\ attempts[1].as = "method" /\ attempts[1].found

\* C9 as stated: the call is first resolved as written.
C9_WrittenFirst ==
  (attempts # <<>> /\ ImplicitReceiverCase) => attempts[1].as = "written"

(***************************************************************************)
(* Programs over every forwarding graph in which a type holds at most one  *)
(* forwarding declaration, of either kind; method calls on every type.     *)
(***************************************************************************)
ForwardingDecls ==
  {<<>>} \cup {<<Fwd(k, t)>> : k \in {"field", "expr"}, t \in Types}

GraphSites ==
  {Site("resolveCall", MethodFoo(t), NoType, FALSE, FALSE) : t \in Types}
    \cup {Site("resolveCallInMethod", PlainFoo, 1, FALSE, FALSE)}

GraphPrograms ==
  {[fwd |-> fw,
    scopes |-> [s \in Scopes |-> IF s = LexScope THEN lex ELSE <<>>],
    poiChain |-> <<LexScope + 1>>,
    cg |-> NoCg,
    calls |-> GraphSites] :
     fw \in [Types -> ForwardingDecls], lex \in {<<>>, <<12>>}}

InitFwd ==
  /\ prog \in GraphPrograms
  /\ IdleCall
  /\ IdleFields
  /\ IdleBody
  /\ IdleInst
  /\ IdleExprs
  /\ IdleTopo
  /\ IdleSigs

SpecFwd == InitFwd /\ [][CallNext]_vars

(***************************************************************************)
(* The forwarding graph of a program.                                      *)
(***************************************************************************)
\* t forwards to u, through a declaration of any kind
ForwardsTo(t, u) == \E i \in 1..Len(prog.fwd[t]) : prog.fwd[t][i].to = u

RECURSIVE ReachableIn(_, _)
\* the types reached from the set ts in one to n forwarding steps
ReachableIn(ts, n) ==
  IF n = 0 THEN {}
  ELSE LET next == {u \in Types : \E t \in ts : ForwardsTo(t, u)}
       IN next \cup ReachableIn(next, n - 1)

OnCycle(t) == t \in ReachableIn({t}, NumTypes)

\* the cycles of the graph, each named by its least type (the graphs of
\* GraphPrograms hold at most one forwarding per type, so a type lies on at
\* most one cycle)
Cycles == {t \in Types : OnCycle(t) /\ \A u \in ReachableIn({t}, NumTypes) : OnCycle(u) => t <= u}

\* C1: the forwarding walk terminates: gatherAndFilterCandidatesForwarding
\* never calls itself for a receiver type that one of its running calls is
\* already working on (such a call repeats its caller: same receiver, same
\* name, still no candidate), whatever the forwarding graph.
C1_NoReceiverTwiceOnStack ==
  \A i, j \in 1..Len(fstack) : i # j => fstack[i].recv # fstack[j].recv

\* C2: over any sequence of method-call resolutions, one "forwarding cycle
\* detected" diagnostic is emitted per cycle of the forwarding graph: never
\* more diagnostics than cycles, and at least one once a call on a receiver
\* of a cycle has been resolved.
C2_OneDiagnosticPerCycle ==
  /\ Len(diags) <= Cardinality(Cycles)
  /\ (pc = "idle" /\ ncalls > 0 /\ written.isMethodCall /\ OnCycle(written.recv)
        /\ candidates = <<>>)
       => Len(diags) >= 1

(***************************************************************************)
(* Programs over the acyclic forwarding graphs in which a type holds up to *)
(* two forwarding declarations.                                            *)
(***************************************************************************)
TwoForwardingDecls ==
  ForwardingDecls
    \cup {<<Fwd("field", t), Fwd("field", u)>> : t \in Types, u \in Types}

TwoDeclPrograms ==
  {[fwd |-> fw,
    scopes |-> [s \in Scopes |-> IF s = LexScope THEN lex ELSE <<>>],
    poiChain |-> <<LexScope + 1>>,
    cg |-> NoCg,
    calls |-> GraphSites] :
     fw \in [Types -> TwoForwardingDecls], lex \in {<<>>, <<12>>}}

\* no type forwards back to itself, in any number of steps
Acyclic == \A t \in Types : ~OnCycle(t)

InitAcyclic ==
  /\ prog \in TwoDeclPrograms
  /\ Acyclic
  /\ IdleCall
  /\ IdleFields
  /\ IdleBody
  /\ IdleInst
  /\ IdleExprs
  /\ IdleTopo
  /\ IdleSigs

SpecAcyclic == InitAcyclic /\ [][CallNext]_vars

\* the type is the target of two forwarding declarations of type t
TwiceTargetOf(t, u) ==
  Cardinality({i \in 1..Len(prog.fwd[t]) : prog.fwd[t][i].to = u}) = 2

\* C19: a forwarding-cycle error is reported only when a cycle exists: on an
\* acyclic forwarding graph, one with a forwarding type reached along two
\* paths or forwarded to by two declarations of one type included, the cycle
\* check answers false for every type and no 'forwarding cycle detected'
\* diagnostic is emitted.
C19_NoCycleNoDiagnostic ==
  Acyclic => (diags = <<>> /\ \A t \in Types : cycleMemo[t] # "cycle")

(***************************************************************************)
(* Fields of composite types and genericity.                               *)
(***************************************************************************)
NumDecls == 2
MaxQueries == 2

\* the composite types (classes and records) a program declares
Decls == 1..NumDecls

\* DefaultsPolicy
Policies == {"IGNORE_DEFAULTS", "USE_DEFAULTS_OTHER_FIELDS", "USE_DEFAULTS"}

\* the type a field is declared with: a builtin concrete type, the generic
\* any type, or a composite type with concrete management
IntType == [kind |-> "int", ct |-> NoType, elts |-> <<>>]
AnyType == [kind |-> "any", ct |-> NoType, elts |-> <<>>]
CompositeType(d) == [kind |-> "composite", ct |-> d, elts |-> <<>>]
\* an instantiated tuple type of known size, with its element types
TupleOf(elts) == [kind |-> "tuple", ct |-> NoType, elts |-> elts]

\* a field declaration: its declared type, and whether it has a default
\* (an initialization expression of concrete type)
Field(ty, d) == [type |-> ty, hasDefault |-> d]

\* the type of a field as resolved under a policy: the default of a field
\* of generic declared type is used only under USE_DEFAULTS
fieldType(field, policy) ==
  IF field.type.kind = "any" /\ field.hasDefault /\ policy = "USE_DEFAULTS"
  THEN IntType
  ELSE field.type

\* the state the queries work on: the memo table, the set of running
\* fieldsForTypeDeclQuery keys, the ignore set of the genericity computation
\* under way, and the log of getTypeGenericity calls
\* how the last getFieldsGenericity call came to its answer: from the
\* parent alone, from the running-query check, or from the parent's
\* genericity pg and the two flags of the ResolvedFields
Combined(how, pg, isGeneric, isGenericWithDefaults) ==
  [how |-> how, pg |-> pg, isGeneric |-> isGeneric,
   isGenericWithDefaults |-> isGenericWithDefaults]

QueryState(memo, log) ==
  [memo |-> memo, running |-> {}, ignore |-> {}, log |-> log,
   last |-> Combined("none", "CONCRETE", FALSE, FALSE)]

NotComputed == [done |-> FALSE, key |-> <<NoType, "none">>,
                isGeneric |-> FALSE, isGenericWithDefaults |-> FALSE]

GenResult(v, st) == [val |-> v, st |-> st]

RECURSIVE getFieldsGenericity(_, _)
RECURSIVE getTypeGenericityIgnoring(_, _)
RECURSIVE CombineElements(_, _, _, _)
RECURSIVE fieldsForTypeDeclQuery(_, _, _)
RECURSIVE fieldsForTypeDecl(_, _, _)
RECURSIVE getTypeGenericity(_, _)
RECURSIVE finalizeFields(_, _, _, _, _)

\* ResolvedFields::finalizeFields, one field: a field whose type is not
\* concrete makes the type generic; it counts as defaulted when its type is
\* generic with defaults or it has a default
FinalizeField(flags, field, g) ==
  IF g = "CONCRETE" THEN flags
  ELSE [anyGeneric |-> TRUE,
        allGenHaveDefaults |-> flags.allGenHaveDefaults
                                 /\ (g = "GENERIC_WITH_DEFAULTS" \/ field.hasDefault)]

FinalizeNext(fields, i, policy, flags, g) ==
  finalizeFields(fields, i + 1, policy, FinalizeField(flags, fields[i], g.val), g.st)

\* ResolvedFields::finalizeFields: the genericity of each field's type
finalizeFields(fields, i, policy, flags, st) ==
  IF i > Len(fields) THEN GenResult(flags, st)
  ELSE FinalizeNext(fields, i, policy, flags,
                    getTypeGenericity(fieldType(fields[i], policy), st))

\* QUERY_END of fieldsForTypeDeclQuery
StoreFields(ct, policy, r) ==
  LET fields == [done |-> TRUE, key |-> <<ct, policy>>,
                isGeneric |-> r.val.anyGeneric,
                isGenericWithDefaults |-> r.val.anyGeneric /\ r.val.allGenHaveDefaults]
  IN GenResult(fields, [r.st EXCEPT !.memo[<<ct, policy>>] = fields,
                                   !.running = @ \ {<<ct, policy>>}])

fieldsForTypeDeclQuery(ct, policy, st) ==
  IF st.memo[<<ct, policy>>].done
  THEN GenResult(st.memo[<<ct, policy>>], st)
  ELSE StoreFields(ct, policy,
         finalizeFields(fprog[ct].fields, 1, policy,
                        [anyGeneric |-> FALSE, allGenHaveDefaults |-> TRUE],
                        [st EXCEPT !.running = @ \cup {<<ct, policy>>}]))

\* the policy of the fields fieldsForTypeDecl returns for USE_DEFAULTS,
\* given the fields f computed with USE_DEFAULTS_OTHER_FIELDS
FinalDefaultsPolicyOtherFields(f) ==
  IF f.isGenericWithDefaults THEN "USE_DEFAULTS" ELSE "USE_DEFAULTS_OTHER_FIELDS"

FinalDefaultsPolicy(f) ==
  IF f.isGenericWithDefaults THEN "USE_DEFAULTS" ELSE "IGNORE_DEFAULTS"

FieldsWithDefaults(ct, policy, f) ==
  IF policy = "USE_DEFAULTS"
  THEN fieldsForTypeDeclQuery(ct, FinalDefaultsPolicy(f.val), f.st)
  ELSE f

fieldsForTypeDecl(ct, policy, st) ==
  IF policy = "IGNORE_DEFAULTS"
  THEN fieldsForTypeDeclQuery(ct, "IGNORE_DEFAULTS", st)
  ELSE FieldsWithDefaults(ct, policy,
         fieldsForTypeDeclQuery(ct, "USE_DEFAULTS_OTHER_FIELDS", st))

\* context->isQueryRunning(fieldsForTypeDeclQuery, (ct, policy)) for any of
\* the three policies
FieldsQueryRunning(ct, st) == \E p \in Policies : <<ct, p>> \in st.running

\* a variant that lets the parent count only when it is concrete
FieldsAloneDecide(g, isGeneric, isGenericWithDefaults) ==
  IF isGeneric /\ ~isGenericWithDefaults THEN "GENERIC"
  ELSE IF isGenericWithDefaults /\ g = "CONCRETE" THEN "GENERIC_WITH_DEFAULTS"
  ELSE "CONCRETE"

\* the tail of getFieldsGenericity: the parent's genericity g and the flags
\* of the fields combined
CombineGenericity(g, isGeneric, isGenericWithDefaults) ==
  IF isGenericWithDefaults /\ g \in {"CONCRETE", "GENERIC_WITH_DEFAULTS"}
  THEN "GENERIC_WITH_DEFAULTS"
  ELSE IF isGeneric THEN "GENERIC" ELSE g

FieldsGenericity(g, f) ==
  GenResult(CombineGenericity(g, f.val.isGeneric, f.val.isGenericWithDefaults),
            [f.st EXCEPT !.last = Combined("fields", g, f.val.isGeneric,
                                           f.val.isGenericWithDefaults)])

\* getFieldsGenericity once the parent class is classified
OwnFieldsGenericity(ct, pg) ==
  IF pg.val = "GENERIC"
  THEN GenResult(pg.val, [pg.st EXCEPT !.last = Combined("parent", pg.val, FALSE, FALSE)])
  ELSE IF FieldsQueryRunning(ct, pg.st)
  THEN GenResult("CONCRETE",
                 [pg.st EXCEPT !.last = Combined("running", pg.val, FALSE, FALSE)])
  ELSE FieldsGenericity(pg.val,
         fieldsForTypeDecl(ct, "USE_DEFAULTS_OTHER_FIELDS", pg.st))

\* the genericity of the parent class (a class without a declared parent
\* inherits from object, which is concrete; a record has no parent)
ParentGenericity(ct, st) ==
  IF fprog[ct].parent # NoType
  THEN getFieldsGenericity(fprog[ct].parent, st)
  ELSE GenResult("CONCRETE", st)

getFieldsGenericity(ct, st) ==
  IF CompositeType(ct) \in st.ignore
  THEN GenResult("CONCRETE",
                 [st EXCEPT !.last = Combined("ignored", "CONCRETE", FALSE, FALSE)])
  ELSE OwnFieldsGenericity(ct, ParentGenericity(ct,
         [st EXCEPT !.ignore = @ \cup {CompositeType(ct)}]))

\* a variant in which the last element that is not concrete decides
LastElementDecides(combined, g) ==
  IF g \in {"GENERIC", "GENERIC_WITH_DEFAULTS"} THEN g ELSE combined

\* the body of the loop over the elements of a tuple type
CombineElement(combined, g) ==
  IF g = "GENERIC" THEN g
  ELSE IF g = "GENERIC_WITH_DEFAULTS" /\ combined = "CONCRETE" THEN g
  ELSE combined

CombineNext(elts, i, combined, r) ==
  CombineElements(elts, i + 1, CombineElement(combined, r.val), r.st)

\* getFieldsGenericity, the loop over tt->elementType(i)
CombineElements(elts, i, combined, st) ==
  IF i > Len(elts)
  THEN GenResult(combined, [st EXCEPT !.last = Combined("tuple", "CONCRETE", FALSE, FALSE)])
  ELSE CombineNext(elts, i, combined, getTypeGenericityIgnoring(elts[i], st))

\* getFieldsGenericity for a tuple type
TupleGenericity(tt, st) ==
  IF tt \in st.ignore
  THEN GenResult("CONCRETE",
                 [st EXCEPT !.last = Combined("ignored", "CONCRETE", FALSE, FALSE)])
  ELSE CombineElements(tt.elts, 1, "CONCRETE", [st EXCEPT !.ignore = @ \cup {tt}])

getTypeGenericityIgnoring(ty, st) ==
  IF ty.kind = "composite" THEN getFieldsGenericity(ty.ct, st)
  ELSE IF ty.kind = "tuple" THEN TupleGenericity(ty, st)
  ELSE GenResult(IF ty.kind = "null" THEN "MAYBE_GENERIC"
                 ELSE IF ty.kind = "any" THEN "GENERIC" ELSE "CONCRETE", st)

\* the call returns to a caller that keeps its own ignore set
GenericityReturn(ty, st, r) ==
  GenResult(r.val,
            [r.st EXCEPT !.ignore = st.ignore,
                         !.log = IF ty.kind = "composite"
                                 THEN @ \cup {[t |-> ty.ct, g |-> r.val,
                                               inside |-> st.running # {},
                                               from |-> r.st.last]}
                                 ELSE @])

getTypeGenericity(ty, st) ==
  GenericityReturn(ty, st, getTypeGenericityIgnoring(ty, [st EXCEPT !.ignore = {}]))

(***************************************************************************)
(* Top-level field and genericity queries.                                 *)
(***************************************************************************)
\* a caller asks for the fields of ct under a policy
QueryFields(ct, policy, r) ==
  /\ fmemo' = r.st.memo
  /\ glog' = r.st.log
  /\ flog' = flog \cup {[ct |-> ct, policy |-> policy, key |-> r.val.key]}
  /\ nqueries' = nqueries + 1
  /\ UNCHANGED <<fprog, tuplog, callVars, bodyVars, instVars, exprVars, topoVars, sigVars>>

FieldsCall ==
  /\ nqueries < MaxQueries
  /\ \E ct \in Decls, policy \in Policies :
       QueryFields(ct, policy, fieldsForTypeDecl(ct, policy, QueryState(fmemo, glog)))

\* a caller asks for the genericity of the type ct
QueryGenericity(r) ==
  /\ fmemo' = r.st.memo
  /\ glog' = r.st.log
  /\ nqueries' = nqueries + 1
  /\ UNCHANGED <<fprog, flog, tuplog, callVars, bodyVars, instVars, exprVars, topoVars, sigVars>>

GenericityCall ==
  /\ nqueries < MaxQueries
  /\ \E ct \in Decls :
       QueryGenericity(getTypeGenericity(CompositeType(ct), QueryState(fmemo, glog)))

\* elements of a tuple type
MaxTupleSize == 2

\* the element types of the tuple types asked about
TupleElementTypes == {IntType} \cup {CompositeType(d) : d \in Decls}

TupleTypes ==
  {TupleOf(elts) : elts \in UNION {[1..n -> TupleElementTypes] : n \in 1..MaxTupleSize}}

\* the elements in the opposite order
Reversed(tt) == TupleOf([i \in 1..Len(tt.elts) |-> tt.elts[Len(tt.elts) + 1 - i]])

\* what getTypeGenericity answers for each type of a sequence, asked alone
\* in the state st
EachAlone(tys, st) == [i \in 1..Len(tys) |-> getTypeGenericity(tys[i], st).val]

\* a caller asks for the genericity of the tuple type tt, as the last query
\* of the revision; noted with it is what the same state answers for the
\* elements in the opposite order and for each element alone
QueryTuple(tt, st, r) ==
  /\ fmemo' = r.st.memo
  /\ glog' = r.st.log
  /\ tuplog' = [tt |-> tt, g |-> r.val,
                reversed |-> getTypeGenericity(Reversed(tt), st).val,
                each |-> EachAlone(tt.elts, st)]
  /\ nqueries' = MaxQueries
  /\ UNCHANGED <<fprog, flog, callVars, bodyVars, instVars, exprVars, topoVars, sigVars>>

TupleGenericityCall ==
  /\ nqueries < MaxQueries
  /\ \E tt \in TupleTypes :
       QueryTuple(tt, QueryState(fmemo, glog),
                  getTypeGenericity(tt, QueryState(fmemo, glog)))

\* the next revision: every memoized result is dropped
NewRevision ==
  /\ nqueries = MaxQueries
  /\ fmemo' = [k \in Decls \X Policies |-> NotComputed]
  /\ glog' = {}
  /\ flog' = {}
  /\ nqueries' = 0
  /\ tuplog' = <<>>
  /\ UNCHANGED <<fprog, callVars, bodyVars, instVars, exprVars, topoVars, sigVars>>

FieldsNext ==
  \/ FieldsCall
  \/ GenericityCall
  \/ NewRevision

\* the declaration after d, cyclically
NextDecl(d) == (d % NumDecls) + 1

\* the declarations a composite type d may have
DeclShapes(d) ==
  {[parent |-> NoType, fields |-> fs] :
     fs \in {<<>>,
             <<Field(IntType, FALSE)>>,
             <<Field(AnyType, FALSE)>>,
             <<Field(AnyType, TRUE)>>,
             <<Field(CompositeType(d), FALSE)>>,
             <<Field(CompositeType(NextDecl(d)), FALSE)>>,
             <<Field(CompositeType(d), FALSE), Field(AnyType, FALSE)>>,
             <<Field(CompositeType(NextDecl(d)), FALSE), Field(AnyType, FALSE)>>,
             <<Field(CompositeType(NextDecl(d)), FALSE), Field(AnyType, TRUE)>>,
             <<Field(AnyType, TRUE), Field(AnyType, FALSE)>>}}
  \cup {[parent |-> NextDecl(d), fields |-> fs] :
          fs \in {<<>>, <<Field(AnyType, TRUE)>>}}

FieldPrograms == {fp \in [Decls -> UNION {DeclShapes(d) : d \in Decls}] :
                    \A d \in Decls : fp[d] \in DeclShapes(d) /\ fp[d].parent # d}

InitFields ==
  /\ fprog \in FieldPrograms
  /\ fmemo = [k \in Decls \X Policies |-> NotComputed]
  /\ glog = {}
  /\ flog = {}
  /\ nqueries = 0
  /\ tuplog = <<>>
  /\ prog = [fwd |-> NoForwarding, scopes |-> [s \in Scopes |-> <<>>],
             poiChain |-> <<>>, cg |-> NoCg, calls |-> {}]
  /\ IdleCall
  /\ IdleBody
  /\ IdleInst
  /\ IdleExprs
  /\ IdleTopo
  /\ IdleSigs

SpecFields == InitFields /\ [][FieldsNext]_vars

(***************************************************************************)
(* The genericity of tuple types, over declarations that are concrete,     *)
(* generic with defaults, generic, or hold the next declaration or a tuple *)
(* of themselves.                                                          *)
(***************************************************************************)
TupleDeclShapes(d) ==
  {[parent |-> NoType, fields |-> fs] :
     fs \in {<<Field(IntType, FALSE)>>,
             <<Field(AnyType, TRUE)>>,
             <<Field(AnyType, FALSE)>>,
             <<Field(CompositeType(NextDecl(d)), FALSE), Field(AnyType, TRUE)>>,
             <<Field(TupleOf(<<CompositeType(d), IntType>>), FALSE)>>}}

TuplePrograms == {fp \in [Decls -> UNION {TupleDeclShapes(d) : d \in Decls}] :
                    \A d \in Decls : fp[d] \in TupleDeclShapes(d)}

TupleNext ==
  \/ GenericityCall
  \/ TupleGenericityCall
  \/ NewRevision

InitTuples ==
  /\ fprog \in TuplePrograms
  /\ fmemo = [k \in Decls \X Policies |-> NotComputed]
  /\ glog = {}
  /\ flog = {}
  /\ nqueries = 0
  /\ tuplog = <<>>
  /\ prog = [fwd |-> NoForwarding, scopes |-> [s \in Scopes |-> <<>>],
             poiChain |-> <<>>, cg |-> NoCg, calls |-> {}]
  /\ IdleCall
  /\ IdleBody
  /\ IdleInst
  /\ IdleExprs
  /\ IdleTopo
  /\ IdleSigs

SpecTuples == InitTuples /\ [][TupleNext]_vars

\* the greatest of the genericities of a sequence, CONCRETE when empty
Rank(g) ==
  CASE g = "GENERIC" -> 2 [] g = "GENERIC_WITH_DEFAULTS" -> 1 [] OTHER -> 0

Strongest(gs) ==
  IF \E i \in 1..Len(gs) : gs[i] = "GENERIC" THEN "GENERIC"
  ELSE IF \E i \in 1..Len(gs) : gs[i] = "GENERIC_WITH_DEFAULTS"
  THEN "GENERIC_WITH_DEFAULTS"
  ELSE "CONCRETE"

\* C22: the genericity of an instantiated tuple type of known size is the
\* combination of its element genericities whatever the order of the
\* elements: generic if any element is generic, otherwise
\* generic-with-defaults if any is, otherwise concrete; the computation ends
\* with an answer also for types that refer to themselves through fields.
C22_TupleGenericity ==
  tuplog # <<>> =>
    /\ tuplog.g = Strongest(tuplog.each)
    /\ tuplog.g = tuplog.reversed

\* a tuple of a type that is generic with defaults and a generic type, in
\* that order, was classified generic
C22_DefaultsThenGeneric ==
  /\ tuplog # <<>>
  /\ Len(tuplog.each) = 2
  /\ tuplog.each[1] = "GENERIC_WITH_DEFAULTS"
  /\ tuplog.each[2] = "GENERIC"
  /\ tuplog.g = "GENERIC"

\* the fields computed for ct with USE_DEFAULTS_OTHER_FIELDS
OtherFields(ct) == fmemo[<<ct, "USE_DEFAULTS_OTHER_FIELDS">>]

C6_GenericityDependsOnTypeOnly ==
  \A c, d \in glog : c.t = d.t => c.g = d.g

\* the getTypeGenericity calls answered from the parent and the fields: the
\* field query of the type was not running
FromFields == {c \in glog : c.from.how \in {"fields", "parent"}}

\* some field is generic and has no default
SomeFieldGeneric(c) == c.from.isGeneric /\ ~c.from.isGenericWithDefaults

\* C21 (as the code has it): for a composite type whose field query is not
\* running the genericity is: generic if a field is generic or the parent
\* class is generic; otherwise generic-with-defaults if some field or the
\* parent class is generic-with-defaults; concrete in every other case, that
\* is when all own fields are concrete and the parent is concrete.
C21_GenericityFromFieldsAndParent ==
  \A c \in FromFields :
    c.g = IF SomeFieldGeneric(c) \/ c.from.pg = "GENERIC" THEN "GENERIC"
          ELSE IF c.from.isGenericWithDefaults \/ c.from.pg = "GENERIC_WITH_DEFAULTS"
          THEN "GENERIC_WITH_DEFAULTS"
          ELSE "CONCRETE"

\* a class with concrete fields only and a parent that is generic with
\* defaults was classified
C21_ParentWithDefaults ==
  \E c \in FromFields :
    /\ c.from.how = "fields"
    /\ c.from.pg = "GENERIC_WITH_DEFAULTS"
    /\ ~c.from.isGeneric
    /\ c.g = "GENERIC_WITH_DEFAULTS"

\* C21 as stated: generic if any field is generic or the parent class is
\* generic; generic-with-defaults only if some field is generic-with-defaults,
\* no field is generic and the parent is concrete; concrete in every other
\* case.
C21_ConcreteOtherwise ==
  \A c \in FromFields :
    c.g = IF SomeFieldGeneric(c) \/ c.from.pg = "GENERIC" THEN "GENERIC"
          ELSE IF c.from.isGenericWithDefaults /\ c.from.pg = "CONCRETE"
          THEN "GENERIC_WITH_DEFAULTS"
          ELSE "CONCRETE"

(***************************************************************************)
(* Resolving the bodies of the functions a call selects.                   *)
(***************************************************************************)
MaxTop == 2
MaxFrames == 6

\* a TypedFnSignature that needs no instantiation: a concrete function or an
\* instantiation (instantiatedFrom() != nullptr) of a generic one
Sig(n, d, formal, m, inst, gen) ==
  [name |-> n, decl |-> d, formal |-> formal, isMethod |-> m,
   instantiated |-> inst, compilerGenerated |-> gen]

\* two instantiations of one generic function f
FSigs == <<Sig("f", 1, "int", FALSE, TRUE, FALSE),
           Sig("f", 1, "real", FALSE, TRUE, FALSE)>>

\* a third signature: an instantiation of a generic function g, or an
\* initializer: instantiated, concrete, or compiler-generated
ThirdSigs == {Sig("g", 2, "int", FALSE, TRUE, FALSE),
              Sig("init", 2, "int", TRUE, TRUE, FALSE),
              Sig("init", 2, "int", TRUE, FALSE, FALSE),
              Sig("init", 2, "int", TRUE, FALSE, TRUE)}

SigIds == 1..(Len(FSigs) + 1)
\* the third signature, and the signature InitResolver::finalize() makes of
\* it when it is an initializer whose body decides the receiver type
ThirdSig == Len(FSigs) + 1
FinalSig == Len(FSigs) + 2
FinalSignature(x) == [x EXCEPT !.instantiated = TRUE]

\* the scope of the module, where every function is declared
ModuleScope == NoFn
\* no POI scope (nullptr), and the POI scope of the module
NoPoi == NoScope
ModulePoi == LexScope
PoiScopes == {NoPoi, ModulePoi}

\* the point of instantiation of a call made in a function declared at
\* module level: the scope of the module, whatever POI scope the caller runs in
pointOfInstantiationScope(inScope, inPoiScope) == ModulePoi

\* PoiInfo: the (call, candidate) pairs found through POI and the recursive
\* calls met
PoiInfoOf(ids, rec) == [ids |-> ids, recursive |-> rec]
EmptyPoiInfo == PoiInfoOf({}, {})

\* PoiInfo::accumulate
accumulate(acc, info) ==
  PoiInfoOf(acc.ids \cup info.ids, acc.recursive \cup info.recursive)

\* PoiInfo::accumulateRecursive
accumulateRecursive(acc, key) == PoiInfoOf(acc.ids, acc.recursive \cup {key})

\* the CallInfo of a call that selects the signature sig
BodyCallInfo(sig) == [name |-> sig.name, isMethodCall |-> sig.isMethod]

isCallInfoForInitializer(c) ==
  c.name \in {"init", "init="} /\ c.isMethodCall

isTfsForInitializer(sig) ==
  sig.name \in {"init", "init="} /\ sig.isMethod

ensureBodyIsResolved(sig) ==
  IF sig.compilerGenerated THEN FALSE
  ELSE isTfsForInitializer(sig)

\* context->isQueryRunning(resolveFunctionByInfoQuery, key)
BodyQueryRunning(key, stack) == \E i \in 1..Len(stack) : stack[i].key = key

\* the result of helpResolveFunction: nullptr, or a resolved function
NullFn == [null |-> TRUE, info |-> EmptyPoiInfo]
ResolvedFn(info) == [null |-> FALSE, info |-> info]

PoisWithoutRecursiveCalls(sig, key, acc, r) ==
  IF ~sig.instantiated THEN acc
  ELSE IF r.null THEN acc
  ELSE accumulate(acc, r.info)

\* accumulatePoisUsedByResolvingBody, given the result r of
\* helpResolveFunction(signature, poiScope, skipIfRunning = true)
accumulatePoisUsedByResolvingBody(sig, key, acc, r) ==
  IF ~sig.instantiated THEN acc
  ELSE IF r.null THEN accumulateRecursive(acc, key)
  ELSE accumulate(acc, r.info)

\* a running resolveFunctionByInfoQuery(sig, PoiInfo(poiScope)): its key,
\* the calls of the body, the call the Resolver is at, how far resolveFnCall
\* got with it, the PoiInfo of that call and of the body so far, and the step
\* of the caller that asked for this body
BodyFrame(key, calls, why) ==
  [key |-> key, calls |-> calls, pos |-> 1, phase |-> "inst",
   acc |-> EmptyPoiInfo, info |-> EmptyPoiInfo, wasRunning |-> FALSE,
   why |-> why]

TopFrame == bstack[Len(bstack)]
Callee(fr) == fr.calls[fr.pos]
SetTop(fr) == [bstack EXCEPT ![Len(bstack)] = fr]

\* the scope the calls of a frame are made in
ScopeOf(fr) ==
  IF fr.key[1] = NoFn THEN ModuleScope ELSE bprog.sigs[fr.key[1]].decl

\* the key of the body of the candidate c as instantiated by a call of fr
InstantiationKey(fr, c) == <<c, pointOfInstantiationScope(ScopeOf(fr), fr.key[2])>>

\* the caller goes on with the resolved body the query returned
Resume(fr, why, info) ==
  CASE why = "inst" -> [fr EXCEPT !.phase = "poi"]
    [] why = "poi" ->
         [fr EXCEPT !.acc = accumulatePoisUsedByResolvingBody(
                              bprog.sigs[Callee(fr)], InstantiationKey(fr, Callee(fr)),
                              fr.acc, ResolvedFn(info)),
                    !.phase = "init"]
    [] why = "init" -> [fr EXCEPT !.phase = "ret"]

\* the calls of the body of a signature: the final signature of an
\* initializer has the body of the initializer
BodyOf(s) == bprog.body[IF s = FinalSig THEN ThirdSig ELSE s]

\* resolveFunctionByInfoQuery(sig, PoiInfo(poiScope)) called from the frame
\* fr: a memoized result is returned; otherwise the body is resolved
resolveFunctionByInfoQuery(key, why, fr) ==
  IF bmemo[key].done
  THEN bstack' = SetTop(Resume(fr, why, bmemo[key].info))
  ELSE /\ Len(bstack) < MaxFrames
       /\ bstack' = Append(SetTop(fr), BodyFrame(key, BodyOf(key[1]), why))

\* a call at module level is resolved (resolveCall with no POI scope)
BeginCall ==
  /\ bstack = <<>>
  /\ btop < MaxTop
  /\ \E s \in SigIds \cup {bprog.final} :
       bstack' = <<BodyFrame(<<NoFn, NoPoi>>, <<s>>, "top")>>
  /\ btop' = btop + 1
  /\ UNCHANGED <<bprog, bmemo, pmemo, blog, callVars, fieldVars, instVars, exprVars, topoVars, sigVars>>

\* instantiateSignature: the body of an instantiated initializer is resolved
\* to compute the final signature
InstantiateCandidate ==
  /\ bstack # <<>>
  /\ TopFrame.phase = "inst" /\ TopFrame.pos <= Len(TopFrame.calls)
  /\ LET fr == TopFrame
         sig == bprog.sigs[Callee(fr)]
     IN IF sig.instantiated /\ ensureBodyIsResolved(sig)
             /\ ~sig.compilerGenerated /\ isTfsForInitializer(sig)
        THEN resolveFunctionByInfoQuery(InstantiationKey(fr, Callee(fr)), "inst", fr)
        ELSE bstack' = SetTop([fr EXCEPT !.phase = "poi"])
  /\ UNCHANGED <<bprog, bmemo, pmemo, blog, btop, callVars, fieldVars, instVars, exprVars, topoVars, sigVars>>

\* the PoiInfo of the call before the body of the candidate is looked at:
\* findMostSpecificAndCheck adds the candidate found through POI
OwnPoiInfo(fr) ==
  PoiInfoOf(IF bprog.viaPoi THEN {<<ScopeOf(fr), fr.pos, Callee(fr)>>} ELSE {}, {})

\* resolveFnCall: the POIs used by the body of an instantiated candidate
AccumulatePois ==
  /\ bstack # <<>>
  /\ TopFrame.phase = "poi"
  /\ LET fr == [TopFrame EXCEPT !.acc = OwnPoiInfo(TopFrame)]
         sig == bprog.sigs[Callee(fr)]
         key == InstantiationKey(fr, Callee(fr))
     IN IF ~sig.instantiated
        THEN bstack' = SetTop([fr EXCEPT !.phase = "init"])
        ELSE IF BodyQueryRunning(key, bstack)
        THEN bstack' = SetTop([fr EXCEPT
                                 !.acc = accumulatePoisUsedByResolvingBody(
                                           sig, key, fr.acc, NullFn),
                                 !.wasRunning = TRUE,
                                 !.phase = "init"])
        ELSE resolveFunctionByInfoQuery(key, "poi", fr)
  /\ UNCHANGED <<bprog, bmemo, pmemo, blog, btop, callVars, fieldVars, instVars, exprVars, topoVars, sigVars>>

\* resolveFnCall: the body of the initializer an init call selects is
\* resolved, in the POI scope of the caller
ResolveInitializerBody ==
  /\ bstack # <<>>
  /\ TopFrame.phase = "init"
  /\ LET fr == TopFrame
         sig == bprog.sigs[Callee(fr)]
     IN IF isCallInfoForInitializer(BodyCallInfo(sig)) /\ ~sig.compilerGenerated
        THEN resolveFunctionByInfoQuery(<<Callee(fr), fr.key[2]>>, "init", fr)
        ELSE bstack' = SetTop([fr EXCEPT !.phase = "ret"])
  /\ UNCHANGED <<bprog, bmemo, pmemo, blog, btop, callVars, fieldVars, instVars, exprVars, topoVars, sigVars>>

\* resolveFnCall returns the CallResolutionResult; the Resolver adds its
\* PoiInfo to the PoiInfo of the body and goes to the next call
CallReturn ==
  /\ bstack # <<>>
  /\ TopFrame.phase = "ret"
  /\ blog' = Append(blog, [callee |-> Callee(TopFrame),
                           scope |-> ScopeOf(TopFrame),
                           poiScope |-> TopFrame.key[2],
                           running |-> TopFrame.wasRunning,
                           info |-> TopFrame.acc])
  /\ bstack' = SetTop([TopFrame EXCEPT !.info = accumulate(@, TopFrame.acc),
                                       !.acc = EmptyPoiInfo,
                                       !.wasRunning = FALSE,
                                       !.pos = @ + 1,
                                       !.phase = "inst"])
  /\ UNCHANGED <<bprog, bmemo, pmemo, btop, callVars, fieldVars, instVars, exprVars, topoVars, sigVars>>

\* newTfsForInitializer: the signature the resolved body of an initializer
\* finalizes to; any other function keeps its signature
FinalTfs(s) ==
  IF s = ThirdSig /\ isTfsForInitializer(bprog.sigs[s]) THEN bprog.final ELSE s

\* QUERY_STORE_RESULT(resolveFunctionByPoisQuery, ...): a value already
\* stored for the key in this revision is not updated
StoreByPois(pm, s, info, fnSig) ==
  IF \E e \in pm : e.sig = s /\ e.info = info THEN pm
  ELSE pm \cup {[sig |-> s, info |-> info, fnSig |-> fnSig]}

\* resolveFunctionByPoisQueryWrapper: the stored ResolvedFunction
ResolvedByPois(pm, s, info) ==
  [done |-> TRUE, info |-> info,
   sig |-> (CHOOSE e \in pm : e.sig = s /\ e.info = info).fnSig]

\* QUERY_STORE_RESULT(resolveFunctionByInfoQuery, ...)
StoreByInfo(memo, key, r) ==
  IF memo[key].done THEN memo ELSE [memo EXCEPT ![key] = r]

\* the two tables once the result for a final signature that differs from
\* the signature of the query has been stored under the final signature
StoredUnderFinal(key, info, final) ==
  IF final # key[1]
  THEN [pm |-> StoreByPois(pmemo, final, info, final),
        memo |-> StoreByInfo(bmemo, <<final, key[2]>>,
                             ResolvedByPois(StoreByPois(pmemo, final, info, final),
                                            final, info))]
  ELSE [pm |-> pmemo, memo |-> bmemo]

\* the tables at QUERY_END: the resolved function is stored under the POIs
\* used, the stored one is the result of the query
StoredAtEnd(key, info, final, st) ==
  [pm |-> StoreByPois(st.pm, key[1], info, final),
   memo |-> [st.memo EXCEPT ![key] =
               ResolvedByPois(StoreByPois(st.pm, key[1], info, final), key[1], info)]]

\* resolveFunctionByInfoQuery once the body is resolved, up to QUERY_END:
\* the resolved body is stored and returned to the caller
BodyDone ==
  /\ bstack # <<>>
  /\ TopFrame.phase = "inst" /\ TopFrame.pos > Len(TopFrame.calls)
  /\ IF Len(bstack) = 1
     THEN /\ bstack' = <<>>
          /\ UNCHANGED <<bmemo, pmemo>>
     ELSE /\ LET st == StoredAtEnd(TopFrame.key, TopFrame.info,
                                   FinalTfs(TopFrame.key[1]),
                                   StoredUnderFinal(TopFrame.key, TopFrame.info,
                                                    FinalTfs(TopFrame.key[1])))
             IN /\ bmemo' = st.memo
                /\ pmemo' = st.pm
          /\ bstack' = [SubSeq(bstack, 1, Len(bstack) - 1) EXCEPT
                          ![Len(bstack) - 1] =
                             Resume(bstack[Len(bstack) - 1], TopFrame.why, TopFrame.info)]
  /\ UNCHANGED <<bprog, blog, btop, callVars, fieldVars, instVars, exprVars, topoVars, sigVars>>

BodyNext ==
  \/ BeginCall
  \/ InstantiateCandidate
  \/ AccumulatePois
  \/ ResolveInitializerBody
  \/ CallReturn
  \/ BodyDone

\* the body of a function: no call, or one call
BodyShapes == {<<>>} \cup {<<s>> : s \in SigIds}

\* the signatures a body resolution can finalize the third signature to
Finals(x) ==
  IF isTfsForInitializer(x) /\ ~x.compilerGenerated THEN {ThirdSig, FinalSig}
  ELSE {ThirdSig}

BodyPrograms ==
  {[sigs |-> Append(Append(FSigs, p[1]), FinalSignature(p[1])), final |-> p[2],
    body |-> b, viaPoi |-> v] :
     p \in {q \in ThirdSigs \X {ThirdSig, FinalSig} : q[2] \in Finals(q[1])},
     b \in [SigIds -> BodyShapes], v \in BOOLEAN}

InitBody ==
  /\ bprog \in BodyPrograms
  /\ bstack = <<>>
  /\ bmemo = [k \in (SigIds \cup {FinalSig}) \X PoiScopes |->
                [done |-> FALSE, info |-> EmptyPoiInfo, sig |-> NoFn]]
  /\ pmemo = {}
  /\ blog = <<>>
  /\ btop = 0
  /\ prog = [fwd |-> NoForwarding, scopes |-> [s \in Scopes |-> <<>>],
             poiChain |-> <<>>, cg |-> NoCg, calls |-> {}]
  /\ IdleCall
  /\ IdleFields
  /\ IdleInst
  /\ IdleExprs
  /\ IdleTopo
  /\ IdleSigs

SpecBody == InitBody /\ [][BodyNext]_vars

\* two entries of the log are invocations with equal (callInfo, scope,
\* poiScope)
SameCall(a, b) ==
  a.callee = b.callee /\ a.scope = b.scope /\ a.poiScope = b.poiScope

\* the PoiInfo of a returned call: the candidate if POI found it, and for
\* an instantiated candidate the recursive-call marker if its body was being
\* resolved, the PoiInfo of its resolved body otherwise
ExpectedPoiInfo(a) ==
  LET key == <<a.callee, ModulePoi>>
      own == IF bprog.viaPoi THEN {<<a.scope, 1, a.callee>>} ELSE {}
  IN IF ~bprog.sigs[a.callee].instantiated THEN PoiInfoOf(own, {})
     ELSE IF a.running THEN PoiInfoOf(own, {key})
     ELSE PoiInfoOf(own \cup bmemo[key].info.ids, bmemo[key].info.recursive)

C10_NoReentry ==
  \A i, j \in 1..Len(bstack) : i # j => bstack[i].key # bstack[j].key

\* every result read through a key carries the final signature, and the
\* result of an initializer is also there under the final signature
ReadsFinalSignature ==
  /\ \A k \in DOMAIN bmemo : bmemo[k].done => bmemo[k].sig = FinalTfs(k[1])
  /\ \A poi \in PoiScopes :
       (bmemo[<<ThirdSig, poi>>].done /\ FinalTfs(ThirdSig) = FinalSig)
         => (bmemo[<<FinalSig, poi>>].done /\ bmemo[<<FinalSig, poi>>].sig = FinalSig)

\* a body is resolved only for a key without a stored result, and a stored
\* result is not replaced
StoredOnce ==
  /\ (Len(bstack') > Len(bstack) /\ bstack'[Len(bstack')].key[1] # NoFn)
       => ~bmemo[bstack'[Len(bstack')].key].done
  /\ \A k \in DOMAIN bmemo : bmemo[k].done => bmemo'[k] = bmemo[k]

\* C12: callers that read the resolved function of an initializer through
\* the key of the provisional signature see the final signature F; a result
\* is also stored under F's own keys, so a later resolution of F with the
\* same PoiInfo returns the stored result without resolving the body again;
\* and a stored result for a key is never overwritten within a revision.
C12_FinalSignatureStoredOnce ==
  [][ReadsFinalSignature /\ StoredOnce]_vars

(***************************************************************************)
(* instantiateSignature, formal by formal, as the instantiating filter and *)
(* considerCompilerGeneratedCandidates call it.                            *)
(***************************************************************************)
\* one entry of FormalActualMap::byFormals(): the index of the formal and
\* whether the formal is a vararg
FaEntry(f, v) == [formalIdx |-> f, isVarArgEntry |-> v]

\* the formals of a candidate and the entries the call's actuals make
OnePlain == [numFormals |-> 1, byFormals |-> <<FaEntry(0, FALSE)>>]
FormalShapes ==
  {OnePlain,
   [numFormals |-> 2, byFormals |-> <<FaEntry(0, FALSE), FaEntry(1, FALSE)>>],
   [numFormals |-> 1, byFormals |-> <<FaEntry(0, TRUE)>>],
   [numFormals |-> 1, byFormals |-> <<FaEntry(0, TRUE), FaEntry(0, TRUE)>>],
   [numFormals |-> 2, byFormals |-> <<FaEntry(0, TRUE), FaEntry(1, FALSE)>>],
   [numFormals |-> 2, byFormals |-> <<FaEntry(0, FALSE), FaEntry(1, TRUE)>>]}

HasVarArg(shape) ==
  \E i \in 1..Len(shape.byFormals) : shape.byFormals[i].isVarArgEntry

\* the param count a vararg formal declares (NoCount: none, or not known)
NoCount == 0
Counts(shape) == IF HasVarArg(shape) THEN {NoCount, 1, 2} ELSE {NoCount}

\* a candidate signature as instantiateSignature reads it:
\*   ast                "fn" (the id is a Function) or "ad" (an AggregateDecl)
\*   parentFn           a nested function: sig->parentFn() is set
\*   needsInstantiation typedSignatureInitial found a generic formal
\*   whereKind          what the where clause evaluates to after substitution
\*   count              the vararg formal's param count
\*   knownSize          the vararg formal's tuple type is of known size in
\*                      the initial signature
\*   faMapValid         FormalActualMap(sig, call).isValid()
InstSig(ast, n, m, cg, parent, ni, w, shape, count, valid) ==
  [ast |-> ast, name |-> n, isMethod |-> m, compilerGenerated |-> cg,
   parentFn |-> parent, needsInstantiation |-> ni, whereKind |-> w,
   shape |-> shape, count |-> count, knownSize |-> (count # NoCount),
   faMapValid |-> valid]

\* a vararg formal whose count is an earlier param formal ('args...n'): the
\* count is known once the formals are substituted, the initial tuple type
\* is not of known size
CountFromFormal(sig) == [sig EXCEPT !.knownSize = FALSE]

WhereKinds == {"none", "true", "false", "nonparam"}

\* generic user functions
GenericFns ==
  {InstSig("fn", "foo", FALSE, FALSE, FALSE, TRUE, w, OnePlain, NoCount, TRUE) :
     w \in WhereKinds}
  \cup {InstSig("fn", "foo", FALSE, FALSE, FALSE, TRUE, "none", sh, n, TRUE) :
          sh \in FormalShapes, n \in {NoCount, 1, 2}}
\* user-written initializers
GenericInits ==
  {InstSig("fn", "init", TRUE, FALSE, FALSE, TRUE, w, OnePlain, NoCount, TRUE) :
     w \in {"none", "false"}}
\* a generic function declared inside another function
NestedFns ==
  {InstSig("fn", "foo", FALSE, FALSE, TRUE, TRUE, w, OnePlain, NoCount, TRUE) :
     w \in {"none", "false"}}
\* the type constructor of a generic composite type
TypeConstructors ==
  {InstSig("ad", "R", FALSE, TRUE, FALSE, TRUE, "none", sh, NoCount, TRUE) :
     sh \in {sh \in FormalShapes : ~HasVarArg(sh)}}
\* a compiler-generated method of a generic composite type
GeneratedMethods ==
  {InstSig("ad", n, TRUE, TRUE, FALSE, TRUE, "none", OnePlain, NoCount, TRUE) :
     n \in {"init", "foo"}}
\* a call whose actuals do not map onto the formals
MismatchedFns ==
  {InstSig("fn", "foo", FALSE, FALSE, FALSE, TRUE, "none", OnePlain, NoCount, FALSE)}
\* a candidate that is already concrete
ConcreteFn ==
  InstSig("fn", "foo", FALSE, FALSE, FALSE, FALSE, "none", OnePlain, NoCount, TRUE)
\* concrete functions with a vararg formal of a given count
ConcreteVarArgFns ==
  {InstSig("fn", "foo", FALSE, FALSE, FALSE, FALSE, "none", sh, n, TRUE) :
     sh \in {sh \in FormalShapes : sh.numFormals = 1 /\ HasVarArg(sh)},
     n \in {1, 2}}
\* generic functions whose vararg count is an earlier formal
CountFromFormalFns ==
  {CountFromFormal(sig) :
     sig \in {g \in GenericFns : g.count # NoCount /\ g.shape.numFormals = 1}}

WellFormed(sig) == sig.count \in Counts(sig.shape)

InstSigs ==
  {sig \in GenericFns \cup GenericInits \cup NestedFns \cup TypeConstructors
             \cup MismatchedFns \cup ConcreteVarArgFns \cup CountFromFormalFns :
     WellFormed(sig)}

\* the candidate that follows the first one in the list
SecondSigs ==
  {ConcreteFn,
   InstSig("fn", "foo", FALSE, FALSE, FALSE, TRUE, "false", OnePlain, NoCount, TRUE)}

\* the signature typedSignatureInitial / typeConstructorInitial made of a
\* candidate, and the signature instantiateSignature builds
InstTfs(sig, w, ni, from, bits, subs) ==
  [of |-> sig, where |-> w, needsInstantiation |-> ni, instantiatedFrom |-> from,
   formalsInstantiated |-> bits, substitutions |-> subs]

InitialTfs(sig) ==
  InstTfs(sig,
          IF sig.ast = "fn" /\ sig.whereKind # "none"
          THEN IF sig.needsInstantiation THEN "WHERE_TBD"
               ELSE whereClauseResult(sig, FALSE)
          ELSE "WHERE_NONE",
          sig.needsInstantiation, FALSE, {}, {})

\* a null TypedFnSignature pointer
NullTfs == [of |-> "null", where |-> "WHERE_NONE", needsInstantiation |-> FALSE,
            instantiatedFrom |-> FALSE, formalsInstantiated |-> {},
            substitutions |-> {}]

InstSuccess(tfs) == [ok |-> TRUE, sig |-> tfs, reason |-> "none"]
InstFailure(why) == [ok |-> FALSE, sig |-> NullTfs, reason |-> why]

\* what canPass and getInstantiationType find for an actual:
\*   "default"   the actual is the unknown sentinel (use the default value)
\*   "fail"      canPass rejects
\*   "pass"      passes without instantiating
\*   "inst"      instantiates, no conversion or promotion
\*   "conv"      instantiates through a conversion of a class type, and the
\*               instantiation type accepts the actual
\*   "convno"    as "conv", but the instantiation type rejects the actual
\*   "convother" instantiates through a conversion or promotion that
\*               getInstantiationType has no case for
ActualKinds == {"default", "fail", "pass", "inst", "conv", "convno", "convother"}

\* the locals of instantiateSignature before the loop over the formals
InstLocals ==
  [entry |-> 1, substitutions |-> {}, formalsInstantiated |-> {},
   formalIdx |-> 0, instantiateVarArgs |-> FALSE, varargsTypes |-> 0,
   varArgIdx |-> -1, parentFnTyped |-> FALSE]

CurSig == iprog.lst[ifilter.cur]

\* the number of vararg entries the initial filter counts: the entries
\* whose actual is not the 'use default' sentinel, or all of them when the
\* call has a '?' argument
NumVarArgActuals(sig, kinds, hasQuestionArg) ==
  Cardinality({i \in 1..Len(sig.shape.byFormals) :
                 /\ sig.shape.byFormals[i].isVarArgEntry
                 /\ ~(kinds[i] = "default" /\ ~hasQuestionArg)})

\* a variant that leaves the count of the vararg actuals unchecked
NoInitialCountCheck(sig, kinds, hasQuestionArg) ==
  InstSuccess(InitialTfs(sig))

\* isInitialTypedSignatureApplicable, the check of the vararg actuals: a
\* vararg tuple of known size must have as many elements as there are
\* vararg actuals
InitialVarArgs(sig, kinds, hasQuestionArg) ==
  IF /\ NumVarArgActuals(sig, kinds, hasQuestionArg) > 0
     /\ sig.knownSize
     /\ NumVarArgActuals(sig, kinds, hasQuestionArg) # sig.count
  THEN InstFailure("FAIL_VARARG_MISMATCH")
  ELSE InstSuccess(InitialTfs(sig))

PassedInitial(i) ==
  InitialVarArgs(iprog.lst[i], iprog.actuals[i], iprog.hasQuestionArg).ok

\* the candidate after the i-th that the initial filter let through
NextCandidate(i) ==
  IF \E j \in (i + 1)..Len(iprog.lst) : PassedInitial(j)
  THEN CHOOSE j \in (i + 1)..Len(iprog.lst) :
         PassedInitial(j) /\ \A k \in (i + 1)..(j - 1) : ~PassedInitial(k)
  ELSE Len(iprog.lst) + 1

RECURSIVE InitialRejections(_)
\* what the initial filter refused among the first n candidates
InitialRejections(n) ==
  IF n = 0 THEN <<>>
  ELSE IF PassedInitial(n) THEN InitialRejections(n - 1)
  ELSE Append(InitialRejections(n - 1),
              [cand |-> n, by |-> "isInitialTypedSignatureApplicable",
               returned |-> InitialVarArgs(iprog.lst[n], iprog.actuals[n],
                                           iprog.hasQuestionArg),
               filtered |-> InitialVarArgs(iprog.lst[n], iprog.actuals[n],
                                           iprog.hasQuestionArg)])

RECURSIVE Returned(_)
Returned(log) ==
  IF log = <<>> THEN <<>> ELSE <<Head(log).returned>> \o Returned(Tail(log))

\* filterCandidatesInitialGatherRejected over the candidates of the call
InitialFilter ==
  /\ ipc = "initial"
  /\ ipc' = "next"
  /\ ilog' = InitialRejections(Len(iprog.lst))
  /\ ifilter' = [cur |-> NextCandidate(0), result |-> <<>>,
                 rejected |-> IF iprog.hasRejected THEN Returned(ilog') ELSE <<>>]
  /\ UNCHANGED <<iprog, iloc, ninst>>
  /\ UNCHANGED <<callVars, fieldVars, bodyVars, exprVars, topoVars, sigVars>>

\* a variant of the check below that returns every instantiation
InstantiatingResultUnchecked(typedSignature, instantiated) == instantiated

\* doIsCandidateApplicableInstantiating, once instantiateSignature returned
InstantiatingResult(typedSignature, instantiated) ==
  IF ~instantiated.ok THEN instantiated
  ELSE IF instantiated.sig.where = "WHERE_FALSE"
  THEN InstFailure("FAIL_WHERE_CLAUSE")
  ELSE instantiated

\* filterCandidatesInstantiating: what the loop body does with the result
FilterPush(instantiated) ==
  [cur |-> NextCandidate(ifilter.cur),
   result |-> IF instantiated.ok THEN Append(ifilter.result, instantiated.sig)
              ELSE ifilter.result,
   rejected |-> IF iprog.hasRejected THEN Append(ifilter.rejected, instantiated)
                ELSE ifilter.rejected]

\* instantiateSignature returns r to doIsCandidateApplicableInstantiating,
\* which returns to the filter's loop or to
\* considerCompilerGeneratedCandidates (that one asserts success)
InstReturn(r) ==
  LET instantiated == InstantiatingResult(CurSig, r) IN
  /\ ilog' = Append(ilog, [cand |-> ifilter.cur, by |-> "instantiateSignature",
                           returned |-> r, filtered |-> instantiated])
  /\ IF iprog.viaCg
     THEN IF instantiated.ok
          THEN /\ ifilter' = [ifilter EXCEPT !.cur = @ + 1,
                                             !.result = Append(@, instantiated.sig)]
               /\ ipc' = "next"
          ELSE \/ /\ ipc' = "aborted"
                  /\ UNCHANGED ifilter
               \/ /\ ifilter' = [ifilter EXCEPT !.cur = @ + 1,
                                                !.result = Append(@, NullTfs)]
                  /\ ipc' = "next"
     ELSE /\ ifilter' = FilterPush(instantiated)
          /\ ipc' = "next"

\* filterCandidatesInstantiating: the head of the loop over the candidates
FilterNext ==
  /\ ipc = "next"
  /\ ifilter.cur <= Len(iprog.lst)
  /\ IF CurSig.needsInstantiation
     THEN /\ ipc' = "begin"
          /\ iloc' = InstLocals
          /\ UNCHANGED ifilter
     ELSE /\ ifilter' = [ifilter EXCEPT !.cur = NextCandidate(@),
                                        !.result = Append(@, InitialTfs(CurSig))]
          /\ UNCHANGED <<ipc, iloc>>
  /\ UNCHANGED <<iprog, ilog, ninst>>
  /\ UNCHANGED <<callVars, fieldVars, bodyVars, exprVars, topoVars, sigVars>>

\* the candidate list is exhausted
FilterDone ==
  /\ ipc = "next"
  /\ ifilter.cur > Len(iprog.lst)
  /\ ipc' = "done"
  /\ ninst' = ninst + 1
  /\ UNCHANGED <<iprog, ifilter, iloc, ilog>>
  /\ UNCHANGED <<callVars, fieldVars, bodyVars, exprVars, topoVars, sigVars>>

\* instantiateSignature up to the loop: the parent function of a nested
\* function is asserted away, the formal-actual map must be valid
InstantiateBegin ==
  /\ ipc = "begin"
  /\ \/ /\ CurSig.parentFn
        /\ ipc' = "aborted"
        /\ UNCHANGED <<ifilter, iloc, ilog>>
     \/ /\ ~CurSig.faMapValid
        /\ InstReturn(InstFailure("FAIL_FORMAL_ACTUAL_MISMATCH"))
        /\ UNCHANGED iloc
     \/ /\ CurSig.faMapValid
        /\ ipc' = "formals"
        /\ UNCHANGED <<ifilter, iloc, ilog>>
  /\ UNCHANGED <<iprog, ninst>>
  /\ UNCHANGED <<callVars, fieldVars, bodyVars, exprVars, topoVars, sigVars>>

\* whether the loop body records a substitution for the entry
AddSub(a) ==
  IF a = "default" THEN ~iprog.hasQuestionArg
  ELSE a \in {"inst", "conv", "convother"}

\* a variant that does not step over the vararg formal
AfterEntryNoSkip(e, addSub) ==
  IF e.isVarArgEntry
  THEN [iloc EXCEPT
          !.entry = @ + 1,
          !.instantiateVarArgs = @ \/ addSub,
          !.varargsTypes = @ + 1,
          !.varArgIdx = IF @ < 0 THEN iloc.formalIdx ELSE @]
  ELSE [iloc EXCEPT
          !.entry = @ + 1,
          !.substitutions = IF addSub THEN @ \cup {e.formalIdx} ELSE @,
          !.formalsInstantiated = IF addSub THEN @ \cup {iloc.formalIdx} ELSE @,
          !.formalIdx = @ + 1]

\* the locals after the loop body has handled an entry
AfterEntry(e, addSub) ==
  IF e.isVarArgEntry
  THEN [iloc EXCEPT
          !.entry = @ + 1,
          !.instantiateVarArgs = @ \/ addSub,
          !.varargsTypes = @ + 1,
          !.varArgIdx = IF @ < 0 THEN iloc.formalIdx ELSE @,
          !.formalIdx = IF iloc.varArgIdx < 0 THEN @ + 1 ELSE @]
  ELSE [iloc EXCEPT
          !.entry = @ + 1,
          !.substitutions = IF addSub THEN @ \cup {e.formalIdx} ELSE @,
          !.formalsInstantiated = IF addSub THEN @ \cup {iloc.formalIdx} ELSE @,
          !.formalIdx = @ + 1]

\* one iteration of the loop over faMap.byFormals(): canPass on the actual,
\* the substitution, then canPass against the type-query-aware formal type
InstantiateFormal ==
  /\ ipc = "formals"
  /\ iloc.entry <= Len(CurSig.shape.byFormals)
  /\ \E a \in {iprog.actuals[ifilter.cur][iloc.entry]}, typeQueryPasses \in BOOLEAN :
       LET e == CurSig.shape.byFormals[iloc.entry] IN
       \/ /\ a \in {"fail", "convno"} \/ ~typeQueryPasses
          /\ InstReturn(InstFailure("FAIL_CANNOT_PASS"))
          /\ UNCHANGED iloc
       \/ /\ a = "convother"
          /\ ipc' = "aborted"
          /\ UNCHANGED <<ifilter, iloc, ilog>>
       \/ /\ a \notin {"fail", "convno"} /\ typeQueryPasses
          /\ iloc' = AfterEntry(e, AddSub(a))
          /\ UNCHANGED <<ipc, ifilter, ilog>>
  /\ UNCHANGED <<iprog, ninst>>
  /\ UNCHANGED <<callVars, fieldVars, bodyVars, exprVars, topoVars, sigVars>>

\* the locals once the vararg formal has its tuple substitution
WithVarArgs(sig, loc) ==
  IF loc.varargsTypes > 0
     /\ (loc.instantiateVarArgs \/ ~sig.knownSize)
  THEN [loc EXCEPT !.instantiateVarArgs = TRUE,
                   !.substitutions = @ \cup {loc.varArgIdx},
                   !.formalsInstantiated = @ \cup {loc.varArgIdx}]
  ELSE loc

\* after the loop: the vararg formal is instantiated if necessary; without
\* any substitution the signature itself is the result
InstantiateVarArgs ==
  /\ ipc = "formals"
  /\ iloc.entry > Len(CurSig.shape.byFormals)
  /\ LET loc == WithVarArgs(CurSig, iloc) IN
     IF loc.substitutions = {}
     THEN /\ InstReturn(InstSuccess(InitialTfs(CurSig)))
          /\ iloc' = loc
     ELSE /\ iloc' = loc
          /\ ipc' = "finish"
          /\ UNCHANGED <<ifilter, ilog>>
  /\ UNCHANGED <<iprog, ninst>>
  /\ UNCHANGED <<callVars, fieldVars, bodyVars, exprVars, topoVars, sigVars>>

\* varArgCountMatch: the tuple type of the vararg formal after substitution
\* has as many elements as the formal's param count says
varArgCountMatch(sig, loc) ==
  LET numElements == IF loc.instantiateVarArgs THEN loc.varargsTypes
                     ELSE sig.count
  IN sig.count # NoCount => numElements = sig.count

\* the signature resolveInitializer returns for an initializer: final
ResolvedInitializerTfs(tfs) == [tfs EXCEPT !.needsInstantiation = FALSE]

\* the rest of instantiateSignature: the count of the varargs, the where
\* clause, the new signature, the body of an initializer
InstantiateFinish ==
  /\ ipc = "finish"
  /\ \E needsInstantiation \in BOOLEAN :
       LET sig == CurSig
           where == IF sig.ast = "fn"
                    THEN whereClauseResult(sig, needsInstantiation)
                    ELSE "WHERE_NONE"
           tfs == InstTfs(sig, where, needsInstantiation, TRUE,
                          iloc.formalsInstantiated, iloc.substitutions)
       IN IF sig.ast = "fn" /\ HasVarArg(sig.shape) /\ ~varArgCountMatch(sig, iloc)
          THEN InstReturn(InstFailure("FAIL_VARARG_MISMATCH"))
          ELSE IF ensureBodyIsResolved(tfs.of)
          THEN InstReturn(InstSuccess(ResolvedInitializerTfs(tfs)))
          ELSE InstReturn(InstSuccess(tfs))
  /\ UNCHANGED <<iprog, iloc, ninst>>
  /\ UNCHANGED <<callVars, fieldVars, bodyVars, exprVars, topoVars, sigVars>>

InstNext ==
  \/ InitialFilter
  \/ FilterNext
  \/ FilterDone
  \/ InstantiateBegin
  \/ InstantiateFormal
  \/ InstantiateVarArgs
  \/ InstantiateFinish

\* what the actuals of a call are to the entries of a candidate: an actual
\* handed to a vararg formal is never the 'use default' sentinel, and the
\* actuals of a concrete candidate pass
ActualsOf(sig) ==
  {kinds \in [1..Len(sig.shape.byFormals) -> ActualKinds] :
     \A i \in 1..Len(sig.shape.byFormals) :
        /\ sig.shape.byFormals[i].isVarArgEntry => kinds[i] # "default"
        /\ ~sig.needsInstantiation => kinds[i] = "pass"}

\* the candidates a call finds, with what its actuals are to each
CandidateLists ==
  UNION {{[lst |-> <<c>>, actuals |-> <<a>>] : a \in ActualsOf(c)} : c \in InstSigs}
  \cup
  UNION {{[lst |-> <<c, d>>, actuals |-> <<a, b>>] :
            a \in ActualsOf(c), b \in ActualsOf(d)} :
         c \in InstSigs, d \in SecondSigs}

InstCall(cl, q, rj, cg) ==
  [lst |-> cl.lst, actuals |-> cl.actuals, hasQuestionArg |-> q,
   hasRejected |-> rj, viaCg |-> cg]

\* the calls handed to the filter, and the compiler-generated method
\* considerCompilerGeneratedCandidates instantiates
InstPrograms ==
  {InstCall(cl, q, rj, FALSE) : cl \in CandidateLists, q \in BOOLEAN, rj \in BOOLEAN}
  \cup
  UNION {{InstCall([lst |-> <<c>>, actuals |-> <<a>>], q, FALSE, TRUE) :
            a \in ActualsOf(c), q \in BOOLEAN} :
         c \in GeneratedMethods}

InitInst ==
  /\ iprog \in InstPrograms
  /\ ipc = IF iprog.viaCg THEN "next" ELSE "initial"
  /\ ifilter = [cur |-> 1, result |-> <<>>, rejected |-> <<>>]
  /\ iloc = InstLocals
  /\ ilog = <<>>
  /\ ninst = 0
  /\ prog = [fwd |-> NoForwarding, scopes |-> [s \in Scopes |-> <<>>],
             poiChain |-> <<>>, cg |-> NoCg, calls |-> {}]
  /\ IdleCall
  /\ IdleFields
  /\ IdleBody
  /\ IdleExprs
  /\ IdleTopo
  /\ IdleSigs

SpecInst == InitInst /\ [][InstNext]_vars

\* C11: generic instantiation never aborts: whatever the candidate (user
\* function, nested function, type constructor, compiler-generated method)
\* and the call, instantiateSignature returns a success or a failure, and a
\* failure removes that one candidate only.
C11_InstantiationNeverAborts == ipc # "aborted"

\* C13 (as the code has it): the instantiating check
\* doIsCandidateApplicableInstantiating returns a failure when the where
\* clause evaluates to param false after substitution, and a success only
\* when the where clause of the instantiation is absent, param true or still
\* to be determined; instantiateSignature itself returns the signature
\* carrying where = false.
C13_WhereFalseFilteredOut ==
  \A i \in 1..Len(ilog) :
     /\ ilog[i].filtered.ok =>
          ilog[i].filtered.sig.where \in {"WHERE_NONE", "WHERE_TRUE", "WHERE_TBD"}
     /\ (ilog[i].returned.ok /\ ilog[i].returned.sig.where = "WHERE_FALSE") =>
          (~ilog[i].filtered.ok /\ ilog[i].filtered.reason = "FAIL_WHERE_CLAUSE")

\* an instantiation whose where clause is false has been made and refused
C13_InstantiatedWhereFalse ==
  \E i \in 1..Len(ilog) :
     /\ ilog[i].returned.ok
     /\ ilog[i].returned.sig.instantiatedFrom
     /\ ilog[i].returned.sig.where = "WHERE_FALSE"
     /\ ~ilog[i].filtered.ok

\* C13 (as stated): instantiateSignature returns a failure when the where
\* clause evaluates to param false, and a success only when the clause is
\* absent, param true or still to be determined.
C13_InstantiateSignatureFailsOnWhereFalse ==
  \A i \in 1..Len(ilog) :
     ilog[i].returned.ok =>
       ilog[i].returned.sig.where \in {"WHERE_NONE", "WHERE_TRUE", "WHERE_TBD"}

(***************************************************************************)
(* The built-in type-producing expressions: tuple expressions and the      *)
(* constructors of the numeric types.                                      *)
(***************************************************************************)
MaxElts == 2
MaxExprs == 2

\* QualifiedType: kind, type and param ("null": a null pointer; "int": an
\* IntParam of the given value; "other": a param of another type)
QT(k, t, p) == [kind |-> k, type |-> t, param |-> p, value |-> 0]
IntParam(v) == [kind |-> "PARAM", type |-> "int", param |-> "int", value |-> v]

\* the values an int param actual takes
ParamValues == {-1, 0, 7, 8, 16, 32, 64, 128, 129}

\* the actuals of the calls: the unknown sentinel, unknown and erroneous
\* types, a type query, types, values, params with and without a value
ExprActuals ==
  {QT("UNKNOWN", "null", "null"), QT("CONST_VAR", "UnknownType", "null"),
   QT("TYPE", "ErroneousType", "null"), QT("TYPE", "AnyType", "null"),
   QT("TYPE", "int", "null"), QT("VAR", "int", "null"), QT("PARAM", "int", "null"),
   QT("TYPE", "real", "null"), QT("CONST_VAR", "real", "null"),
   QT("PARAM", "real", "other"), QT("PARAM", "uint", "other")}
  \cup {IntParam(v) : v \in ParamValues}

\* the elements of the tuple expressions
TupleElements ==
  {QT("UNKNOWN", "null", "null"), QT("CONST_VAR", "UnknownType", "null"),
   QT("TYPE", "int", "null"), QT("TYPE", "real", "null"),
   QT("VAR", "int", "null"), QT("CONST_VAR", "real", "null"), IntParam(8)}

ExprCall(n, as, q) == [name |-> n, actuals |-> as, hasQuestionArg |-> q]

\* what a built-in form resolves to: the type (with its kind for a tuple
\* expression), the errors reported, and whether an assertion failed
ExprResult(k, t, errs) == [kind |-> k, type |-> t, errors |-> errs, asserted |-> FALSE]

\* the types the forms produce: a named type, a tuple of element types, a
\* primitive type of a width
NamedType(n) == [tag |-> n, elts |-> <<>>, width |-> 0]
TupleType(flavor, elts) == [tag |-> flavor, elts |-> elts, width |-> 0]
PrimitiveType(n, w) == [tag |-> n, elts |-> <<>>, width |-> w]
NullType == NamedType("null")
UnknownType == NamedType("UnknownType")
ErroneousType == NamedType("ErroneousType")

ElementUnknown(q) == q.type = "null" \/ q.type = "UnknownType"

\* a variant that takes no tuple expression for a mix
NeverMixed(allType, allValue) == FALSE

\* the elements are neither all types nor all values
MixOfValueAndType(allType, allValue) == allType = FALSE /\ allValue = FALSE

\* resolveTupleExpr
resolveTupleExpr(c) ==
  LET n == Len(c.actuals)
      anyUnknown == \E i \in 1..n : ElementUnknown(c.actuals[i])
      allValue == ~\E i \in 1..n : ~ElementUnknown(c.actuals[i])
                                   /\ c.actuals[i].kind = "TYPE"
      allType == ~\E i \in 1..n : ~ElementUnknown(c.actuals[i])
                                  /\ c.actuals[i].kind # "TYPE"
      eltTypes == [i \in 1..n |-> c.actuals[i].type]
  IN IF anyUnknown THEN ExprResult("CONST_VAR", UnknownType, <<>>)
     ELSE IF MixOfValueAndType(allType, allValue)
     THEN ExprResult("CONST_VAR", ErroneousType,
                     <<"Mix of value and type tuple elements in tuple expr">>)
     ELSE ExprResult(IF allValue THEN "CONST_VAR"
                     ELSE IF allType THEN "TYPE" ELSE "UNKNOWN",
                     IF allType THEN TupleType("value", eltTypes)
                     ELSE TupleType("referential", eltTypes),
                     <<>>)

NumericNames == {"int", "uint", "bool", "real", "imag", "complex"}

\* the widths each numeric type has; width 0 stands for the default width
ValidWidths(name) ==
  IF name \in {"int", "uint", "bool"} THEN {0, 8, 16, 32, 64}
  ELSE IF name \in {"real", "imag"} THEN {0, 32, 64}
  ELSE {0, 64, 128}

\* PrimitiveType::getWithNameAndWidth: nullptr for a width the type lacks
getWithNameAndWidth(name, width) ==
  IF width \in ValidWidths(name) THEN PrimitiveType(name, width)
  ELSE NullType

InvalidNumeric ==
  ExprResult("TYPE", ErroneousType, <<"invalid numeric type construction">>)

\* a variant that accepts any number of actuals
AnyNumberOfActuals(c) == TRUE

\* the number of actuals fits the form: none with '?', one otherwise
NumericArityOk(c) ==
  IF c.hasQuestionArg THEN Len(c.actuals) = 0 ELSE Len(c.actuals) = 1

\* getNumericType: whether the generic version of the type is asked for
useGenericType(c) ==
  IF c.hasQuestionArg THEN TRUE
  ELSE /\ Len(c.actuals) >= 1
       /\ \/ c.actuals[1].type = "AnyType"
          \/ c.actuals[1].kind = "PARAM" /\ c.actuals[1].param = "null"

AnyNumericType(name) ==
  IF name = "int" THEN ExprResult("TYPE", NamedType("AnyIntType"), <<>>)
  ELSE IF name = "uint" THEN ExprResult("TYPE", NamedType("AnyUintType"), <<>>)
  ELSE IF name = "real" THEN ExprResult("TYPE", NamedType("AnyRealType"), <<>>)
  ELSE IF name = "imag" THEN ExprResult("TYPE", NamedType("AnyImagType"), <<>>)
  ELSE IF name = "complex" THEN ExprResult("TYPE", NamedType("AnyComplexType"), <<>>)
  ELSE [ExprResult("TYPE", NullType, <<>>) EXCEPT !.asserted = TRUE]

\* getNumericType for an actual that asks for no generic type
NumericOfActual(name, qt) ==
  IF qt.type = "null" THEN ExprResult("TYPE", UnknownType, <<>>)
  ELSE IF qt.type \in {"UnknownType", "ErroneousType"}
  THEN ExprResult("TYPE", NamedType(qt.type), <<>>)
  ELSE IF qt.param = "null" THEN ExprResult("TYPE", UnknownType, <<>>)
  ELSE IF qt.type # "int" \/ qt.param # "int" THEN InvalidNumeric
  ELSE IF 0 <= qt.value /\ qt.value <= 128
          /\ getWithNameAndWidth(name, qt.value) # NullType
  THEN ExprResult("TYPE", getWithNameAndWidth(name, qt.value), <<>>)
  ELSE InvalidNumeric

\* getNumericType
getNumericType(c) ==
  IF c.name \notin NumericNames THEN ExprResult("TYPE", NullType, <<>>)
  ELSE IF ~NumericArityOk(c) THEN InvalidNumeric
  ELSE IF useGenericType(c) THEN AnyNumericType(c.name)
  ELSE NumericOfActual(c.name,
                       IF Len(c.actuals) > 0 THEN c.actuals[1]
                       ELSE QT("UNKNOWN", "null", "null"))

ManagedNames == {"owned", "shared", "unmanaged", "borrowed"}

\* the class types of the program: a manageable type (the class itself) and
\* class types over it with their nilability
ManageableTypes == {"MyClass"}
ClassTypes == {"borrowed MyClass", "borrowed MyClass?", "unmanaged MyClass?"}
Nilability(t) ==
  IF t \notin ClassTypes THEN "unspecified"
  ELSE IF t \in {"borrowed MyClass?", "unmanaged MyClass?"} THEN "nilable"
  ELSE "nonnil"

\* ClassType::get: the manageable type, the manager, the decorator
ClassTypeOf(mt, manager, de, nilable) ==
  [tag |-> "ClassType", elts |-> <<mt, manager, de, nilable>>, width |-> 0]

\* getManagedClassType: the decorator and the manager a name stands for
DecoratorOf(name) ==
  IF name \in {"owned", "shared"} THEN "MANAGED"
  ELSE IF name = "unmanaged" THEN "UNMANAGED" ELSE "BORROWED"
ManagerOf(name) ==
  IF name = "owned" THEN "AnyOwnedType"
  ELSE IF name = "shared" THEN "AnySharedType" ELSE "null"

InvalidClass ==
  ExprResult("TYPE", ErroneousType, <<"invalid class type construction">>)

\* getManagedClassType
getManagedClassType(c) ==
  IF c.name \notin ManagedNames THEN ExprResult("TYPE", NullType, <<>>)
  ELSE IF c.hasQuestionArg
  THEN IF Len(c.actuals) # 0 THEN InvalidClass
       ELSE IF c.name = "owned" THEN ExprResult("TYPE", NamedType("AnyOwnedType"), <<>>)
       ELSE IF c.name = "shared" THEN ExprResult("TYPE", NamedType("AnySharedType"), <<>>)
       ELSE ExprResult("TYPE", ClassTypeOf("AnyClassType", "null",
                                           DecoratorOf(c.name), "unspecified"), <<>>)
  ELSE LET t == IF Len(c.actuals) > 0 THEN c.actuals[1].type ELSE "null" IN
       IF t = "null" \/ ~(t \in ManageableTypes \/ t \in ClassTypes)
       THEN ExprResult("TYPE", ErroneousType,
                       IF t # "null" /\ t # "UnknownType"
                       THEN <<"invalid class type construction">> ELSE <<>>)
       ELSE ExprResult("TYPE",
                       ClassTypeOf("MyClass", ManagerOf(c.name),
                                   DecoratorOf(c.name), Nilability(t)),
                       <<>>)

InvalidCPtr ==
  ExprResult("TYPE", ErroneousType, <<"invalid c_ptr type construction">>)

CPtrTypeOf(t) == [tag |-> "CPtrType", elts |-> <<t>>, width |-> 0]

\* getCPtrType
getCPtrType(c) ==
  IF c.name # "c_ptr" THEN ExprResult("TYPE", NullType, <<>>)
  ELSE IF c.hasQuestionArg /\ Len(c.actuals) # 0 THEN InvalidCPtr
  ELSE IF ~c.hasQuestionArg /\ Len(c.actuals) # 1 THEN InvalidCPtr
  ELSE IF c.hasQuestionArg \/ c.actuals[1].type = "AnyType"
  THEN ExprResult("TYPE", NamedType("CPtrType"), <<>>)
  ELSE LET qt == c.actuals[1] IN
       IF qt.type = "null" THEN ExprResult("TYPE", UnknownType, <<>>)
       ELSE IF qt.type \in {"UnknownType", "ErroneousType"}
       THEN ExprResult("TYPE", NamedType(qt.type), <<>>)
       ELSE IF qt.kind # "TYPE" THEN InvalidCPtr
       ELSE ExprResult("TYPE", CPtrTypeOf(qt.type), <<>>)

\* a tuple expression of the program is resolved
ResolveTuple ==
  /\ nexprs < MaxExprs
  /\ \E n \in 1..MaxElts : \E as \in [1..n -> TupleElements] :
       LET c == ExprCall("tuple", as, FALSE) IN
       elog' = [form |-> "tuple", ci |-> c, r |-> resolveTupleExpr(c)]
  /\ nexprs' = nexprs + 1
  /\ UNCHANGED <<callVars, fieldVars, bodyVars, instVars, topoVars, sigVars>>

\* the actuals of a call of a numeric type constructor
NumericActuals ==
  {<<>>} \cup {<<a>> : a \in ExprActuals}
         \cup {<<a, a>> : a \in {IntParam(8), QT("TYPE", "AnyType", "null")}}

\* a call of a numeric type constructor is resolved
ResolveNumeric ==
  /\ nexprs < MaxExprs
  /\ \E name \in NumericNames, as \in NumericActuals, q \in BOOLEAN :
       LET c == ExprCall(name, as, q) IN
       elog' = [form |-> "numeric", ci |-> c, r |-> getNumericType(c)]
  /\ nexprs' = nexprs + 1
  /\ UNCHANGED <<callVars, fieldVars, bodyVars, instVars, topoVars, sigVars>>

\* the actuals of a call of a class-management constructor
ClassActuals ==
  {<<>>} \cup {<<QT("TYPE", t, "null")>> : t \in ManageableTypes \cup ClassTypes}
         \cup {<<a>> : a \in {QT("UNKNOWN", "null", "null"),
                              QT("CONST_VAR", "UnknownType", "null"),
                              QT("TYPE", "ErroneousType", "null"),
                              QT("TYPE", "int", "null"),
                              QT("VAR", "int", "null")}}

\* a call of owned, shared, unmanaged or borrowed is resolved
ResolveManagedClass ==
  /\ nexprs < MaxExprs
  /\ \E name \in ManagedNames, as \in ClassActuals, q \in BOOLEAN :
       LET c == ExprCall(name, as, q) IN
       elog' = [form |-> "class", ci |-> c, r |-> getManagedClassType(c)]
  /\ nexprs' = nexprs + 1
  /\ UNCHANGED <<callVars, fieldVars, bodyVars, instVars, topoVars, sigVars>>

\* a call of c_ptr is resolved
ResolveCPtr ==
  /\ nexprs < MaxExprs
  /\ \E as \in NumericActuals, q \in BOOLEAN :
       LET c == ExprCall("c_ptr", as, q) IN
       elog' = [form |-> "c_ptr", ci |-> c, r |-> getCPtrType(c)]
  /\ nexprs' = nexprs + 1
  /\ UNCHANGED <<callVars, fieldVars, bodyVars, instVars, topoVars, sigVars>>

ExprNext ==
  \/ ResolveTuple
  \/ ResolveNumeric
  \/ ResolveManagedClass
  \/ ResolveCPtr

InitExprs ==
  /\ elog = <<>>
  /\ nexprs = 0
  /\ prog = [fwd |-> NoForwarding, scopes |-> [s \in Scopes |-> <<>>],
             poiChain |-> <<>>, cg |-> NoCg, calls |-> {}]
  /\ IdleCall
  /\ IdleFields
  /\ IdleBody
  /\ IdleInst
  /\ IdleTopo
  /\ IdleSigs

SpecExprs == InitExprs /\ [][ExprNext]_vars

\* the tuple expression resolved last, if its elements all have known types
KnownTuple ==
  /\ elog # <<>>
  /\ elog.form = "tuple"
  /\ \A i \in 1..Len(elog.ci.actuals) : ~ElementUnknown(elog.ci.actuals[i])

ElementsAre(isType) ==
  \A i \in 1..Len(elog.ci.actuals) : (elog.ci.actuals[i].kind = "TYPE") = isType

ElementTypes == [i \in 1..Len(elog.ci.actuals) |-> elog.ci.actuals[i].type]

\* C14: a tuple expression whose elements all have known types resolves to
\* a TYPE-kind tuple of the element types when all elements are types, to a
\* CONST_VAR referential tuple of the element types when all are values,
\* and to ErroneousType with exactly one 'mix of value and type' error when
\* types and values are mixed; there is no other outcome.
C14_TupleExprKinds ==
  KnownTuple =>
    /\ ~elog.r.asserted
    /\ IF ElementsAre(TRUE)
       THEN /\ elog.r.kind = "TYPE"
            /\ elog.r.type = TupleType("value", ElementTypes)
            /\ elog.r.errors = <<>>
       ELSE IF ElementsAre(FALSE)
       THEN /\ elog.r.kind = "CONST_VAR"
            /\ elog.r.type = TupleType("referential", ElementTypes)
            /\ elog.r.errors = <<>>
       ELSE /\ elog.r.type = ErroneousType
            /\ elog.r.errors = <<"Mix of value and type tuple elements in tuple expr">>

\* a tuple expression that mixes a value and a type has been resolved
C14_MixedTupleResolved ==
  /\ KnownTuple
  /\ ~ElementsAre(TRUE) /\ ~ElementsAre(FALSE)
  /\ elog.r.type = ErroneousType

\* the call of int, uint, real, imag or complex resolved last
NumericCall ==
  /\ elog # <<>>
  /\ elog.form = "numeric"
  /\ elog.ci.name \in {"int", "uint", "real", "imag", "complex"}

\* the call has one actual, a param of type int with a value
OneIntParam ==
  /\ ~elog.ci.hasQuestionArg
  /\ Len(elog.ci.actuals) = 1
  /\ elog.ci.actuals[1].kind = "PARAM"
  /\ elog.ci.actuals[1].type = "int"
  /\ elog.ci.actuals[1].param = "int"

\* the call has one actual, a param with a value that is no int
OneOtherParam ==
  /\ ~elog.ci.hasQuestionArg
  /\ Len(elog.ci.actuals) = 1
  /\ elog.ci.actuals[1].kind = "PARAM"
  /\ elog.ci.actuals[1].param = "other"

\* the '?' form, or one actual that is a type query
GenericForm ==
  \/ elog.ci.hasQuestionArg /\ Len(elog.ci.actuals) = 0
  \/ /\ ~elog.ci.hasQuestionArg /\ Len(elog.ci.actuals) = 1
     /\ \/ elog.ci.actuals[1].type = "AnyType"
        \/ elog.ci.actuals[1].kind = "PARAM" /\ elog.ci.actuals[1].param = "null"

WrongNumberOfActuals ==
  IF elog.ci.hasQuestionArg THEN Len(elog.ci.actuals) # 0
  ELSE Len(elog.ci.actuals) # 1

AnyBound(name) ==
  CASE name = "int" -> "AnyIntType"
    [] name = "uint" -> "AnyUintType"
    [] name = "real" -> "AnyRealType"
    [] name = "imag" -> "AnyImagType"
    [] name = "complex" -> "AnyComplexType"

\* C15: for int, uint, real, imag and complex called with one param int
\* actual w, a width in [0, 128] that the named type has yields that
\* primitive type; every other param int width, a non-int param, or a wrong
\* number of actuals reports 'invalid numeric type construction' and yields
\* ErroneousType; the '?' form and a type-query actual yield the Any* bound
\* of the name without error.
C15_NumericTypeConstruction ==
  NumericCall =>
    /\ ~elog.r.asserted
    /\ OneIntParam =>
         IF elog.ci.actuals[1].value \in 0..128
            /\ elog.ci.actuals[1].value \in ValidWidths(elog.ci.name)
         THEN /\ elog.r.type = PrimitiveType(elog.ci.name, elog.ci.actuals[1].value)
              /\ elog.r.errors = <<>>
         ELSE elog.r = InvalidNumeric
    /\ (OneOtherParam \/ WrongNumberOfActuals) => elog.r = InvalidNumeric
    /\ GenericForm =>
         /\ elog.r.type = NamedType(AnyBound(elog.ci.name))
         /\ elog.r.errors = <<>>

\* a numeric type was built for a valid width, or refused for a width the
\* type lacks
C15_WidthRefused ==
  /\ NumericCall
  /\ OneIntParam
  /\ elog.ci.actuals[1].value \in 0..128
  /\ elog.ci.actuals[1].value \notin ValidWidths(elog.ci.name)
  /\ elog.r = InvalidNumeric

\* what instantiateSignature returned last
LastReturned == ilog[Len(ilog)].returned

\* a vararg formal followed by a further formal
VarArgThenFormal ==
  [numFormals |-> 2, byFormals |-> <<FaEntry(0, TRUE), FaEntry(1, FALSE)>>]

BitmapAgrees(r, loc) ==
  /\ r.sig.instantiatedFrom =>
       /\ loc.substitutions # {}
       /\ r.sig.formalsInstantiated = loc.substitutions
       /\ r.sig.substitutions = loc.substitutions
  /\ ~r.sig.instantiatedFrom => loc.substitutions = {}
  /\ loc.substitutions = {} => r.sig = InitialTfs(r.sig.of)

VarArgEntries(sig) ==
  {j \in 1..Len(sig.shape.byFormals) : sig.shape.byFormals[j].isVarArgEntry}

\* the index of the vararg formal of a signature that has one
VarArgFormal(sig) ==
  sig.shape.byFormals[CHOOSE j \in VarArgEntries(sig) : TRUE].formalIdx

\* the call hands the i-th candidate a number of vararg actuals that is not
\* the count its vararg formal declares
CountMismatch(i) ==
  /\ iprog.lst[i].ast = "fn"
  /\ HasVarArg(iprog.lst[i].shape)
  /\ iprog.lst[i].count # NoCount
  /\ Cardinality(VarArgEntries(iprog.lst[i])) # iprog.lst[i].count

SomeElementSubstituted(i) ==
  \E j \in VarArgEntries(iprog.lst[i]) : AddSub(iprog.actuals[i][j])

TupleSubstituted(sig, loc) ==
  HasVarArg(sig.shape) /\ VarArgFormal(sig) \in loc.substitutions

LoopOver == ipc = "formals" /\ iloc.entry > Len(CurSig.shape.byFormals)

RejectedAs(i, reasons) ==
  \A k \in 1..Len(ilog) :
     ilog[k].cand = i => (~ilog[k].returned.ok /\ ilog[k].returned.reason \in reasons)

NeverInResult(i) ==
  \A k \in 1..Len(ifilter.result) : ifilter.result[k].of # iprog.lst[i]

MaxSigs == 2

\* a caller asks for the initial signature of the function f
TypedSignatureInitialCall ==
  /\ nsigs < MaxSigs
  /\ \E f \in FnIds :
       slog' = Append(slog, [fn |-> f, sig |-> typedSignatureInitial(f),
                             errors |-> typedSignatureInitialErrors(f)])
  /\ nsigs' = nsigs + 1
  /\ UNCHANGED tclog
  /\ UNCHANGED <<callVars, fieldVars, bodyVars, instVars, exprVars, topoVars>>

\* the next revision
SigRevision ==
  /\ nsigs = MaxSigs
  /\ slog' = <<>>
  /\ tclog' = <<>>
  /\ nsigs' = 0
  /\ UNCHANGED <<callVars, fieldVars, bodyVars, instVars, exprVars, topoVars>>

\* the fields of a composite type as fieldsForTypeDecl reports them under
\* IGNORE_DEFAULTS:
\*   kind            TYPE, PARAM or VAR
\*   hasParamPtr     a param whose value is known
\*   g               what getTypeGenericity answers for the type ("UNKNOWN": a
\*                   null or unknown type)
\*   initExpression  the declaration has an initializer
\*   typeExpression  the declaration has a declared type
MaxCtorFields == 2

CtorField(k, ptr, g, init, te) ==
  [kind |-> k, hasParamPtr |-> ptr, g |-> g, initExpression |-> init,
   typeExpression |-> te]

Genericities == {"CONCRETE", "GENERIC", "GENERIC_WITH_DEFAULTS", "UNKNOWN"}

\* 'type t;' before and after t is instantiated, 'param p: int;' before and
\* after, and the value fields
CtorFields ==
  {CtorField("TYPE", FALSE, g, init, FALSE) :
     g \in {"GENERIC", "CONCRETE"}, init \in BOOLEAN}
  \cup {CtorField("PARAM", FALSE, g, init, TRUE) :
          g \in {"CONCRETE", "UNKNOWN"}, init \in BOOLEAN}
  \cup {CtorField("PARAM", TRUE, "CONCRETE", FALSE, TRUE)}
  \cup {CtorField("VAR", FALSE, g, init, te) :
          g \in Genericities, init \in BOOLEAN, te \in BOOLEAN}

CtorTypes == UNION {[1..n -> CtorFields] : n \in 1..MaxCtorFields}

\* QualifiedType::isGenericOrUnknown: a param without a value is generic
isGenericOrUnknown(qt) ==
  (qt.kind = "PARAM" /\ ~qt.hasParamPtr) \/ qt.g # "CONCRETE"

Excluded == [include |-> FALSE, kind |-> "UNKNOWN", type |-> "none"]
IncludedAs(k, t) == [include |-> TRUE, kind |-> k, type |-> t]

\* a variant that takes generic-with-defaults for generic
IncludeNonConcrete(fieldDecl, qt) ==
  IF ~isGenericOrUnknown(qt) THEN Excluded
  ELSE IF qt.kind \in {"PARAM", "TYPE"}
  THEN IncludedAs(qt.kind, "same")
  ELSE IF fieldDecl.initExpression THEN Excluded
  ELSE IF ~fieldDecl.typeExpression THEN IncludedAs("TYPE", "AnyType")
  ELSE IF qt.g # "UNKNOWN" THEN IncludedAs("TYPE", "same")
  ELSE Excluded

\* shouldIncludeFieldInTypeConstructor: whether the field is a formal of the
\* type constructor, and the type of the formal
shouldIncludeFieldInTypeConstructor(fieldDecl, qt) ==
  IF ~isGenericOrUnknown(qt) THEN Excluded
  ELSE IF (qt.kind = "PARAM" /\ ~qt.hasParamPtr)
          \/ qt.kind = "TYPE"
  THEN IncludedAs(qt.kind, "same")
  ELSE IF fieldDecl.initExpression THEN Excluded
  ELSE IF ~fieldDecl.typeExpression THEN IncludedAs("TYPE", "AnyType")
  ELSE IF qt.g # "UNKNOWN" /\ qt.g = "GENERIC"
  THEN IncludedAs("TYPE", "same")
  ELSE Excluded

CtorFormal(i, inc) == [field |-> i, kind |-> inc.kind, type |-> inc.type]

RECURSIVE CtorFormals(_, _)
\* the loop over the fields: the formals of the fields 1..n
CtorFormals(f, n) ==
  IF n = 0 THEN <<>>
  ELSE IF shouldIncludeFieldInTypeConstructor(f[n], f[n]).include
  THEN Append(CtorFormals(f, n - 1),
              CtorFormal(n, shouldIncludeFieldInTypeConstructor(f[n], f[n])))
  ELSE CtorFormals(f, n - 1)

\* typeConstructorInitialQuery for a composite type with the fields f
typeConstructorInitial(f) ==
  [formals |-> CtorFormals(f, Len(f)), where |-> "WHERE_NONE",
   needsInstantiation |-> TRUE, instantiatedFrom |-> FALSE]

\* a caller asks for the type constructor of a composite type, as the one
\* query of the revision
TypeConstructorInitialCall ==
  /\ nsigs = 0
  /\ \E f \in CtorTypes :
       tclog' = [fields |-> f, sig |-> typeConstructorInitial(f)]
  /\ nsigs' = MaxSigs
  /\ UNCHANGED slog
  /\ UNCHANGED <<callVars, fieldVars, bodyVars, instVars, exprVars, topoVars>>

SigNext ==
  \/ TypedSignatureInitialCall
  \/ TypeConstructorInitialCall
  \/ SigRevision

InitSigs ==
  /\ slog = <<>>
  /\ tclog = <<>>
  /\ nsigs = 0
  /\ prog = [fwd |-> NoForwarding, scopes |-> [s \in Scopes |-> <<>>],
             poiChain |-> <<>>, cg |-> NoCg, calls |-> {}]
  /\ IdleCall
  /\ IdleFields
  /\ IdleBody
  /\ IdleInst
  /\ IdleExprs
  /\ IdleTopo

SpecSigs == InitSigs /\ [][SigNext]_vars

\* the where result a declaration calls for: none without a clause, to be
\* determined on a generic function, true or false for a param bool clause
ExpectedWhere(d) ==
  IF d.whereKind = "none" THEN {"WHERE_NONE"}
  ELSE IF d.generic THEN {"WHERE_TBD"}
  ELSE IF d.whereKind = "true" THEN {"WHERE_TRUE"}
  ELSE IF d.whereKind = "false" THEN {"WHERE_FALSE"}
  ELSE {}

NotParamBool(e) ==
  FnTable[e.fn].whereKind = "nonparam" /\ ~FnTable[e.fn].generic

WhereErrors == {"where clause does not result in a param bool value"}

\* C23: typedSignatureInitial records WHERE_NONE without a where clause,
\* WHERE_TBD with a clause on a signature that needs instantiation,
\* WHERE_TRUE or WHERE_FALSE for a param bool clause on a signature that
\* needs none; a clause that is no param bool on such a signature reports
\* an error, and the signature recorded with the error keeps WHERE_TBD.
\* Hence a signature with needsInstantiation = false carries a where result
\* in {none, true, false} unless that error was reported.
C23_WhereResult ==
  \A i \in 1..Len(slog) :
    /\ slog[i].sig.needsInstantiation = FnTable[slog[i].fn].generic
    /\ ~NotParamBool(slog[i]) =>
         /\ slog[i].sig.where \in ExpectedWhere(FnTable[slog[i].fn])
         /\ slog[i].errors = {}
    /\ NotParamBool(slog[i]) =>
         /\ slog[i].errors = WhereErrors
         /\ slog[i].sig.where = "WHERE_TBD"
    /\ (~slog[i].sig.needsInstantiation /\ slog[i].errors = {}) =>
         slog[i].sig.where \in {"WHERE_NONE", "WHERE_TRUE", "WHERE_FALSE"}

\* the signature of a concrete function whose where clause is no param bool
\* was asked for
C23_ErrorReported ==
  \E i \in 1..Len(slog) : NotParamBool(slog[i]) /\ slog[i].errors # {}

\* the type of a field is not concrete yet
NotYetConcrete(fd) == ~(fd.g = "CONCRETE" /\ (fd.kind = "PARAM" => fd.hasParamPtr))

TypeField(fd) == fd.kind = "TYPE"
ParamWithoutValue(fd) == fd.kind = "PARAM" /\ ~fd.hasParamPtr
ValueField(fd) == fd.kind = "VAR"
UntypedUninitialized(fd) ==
  ValueField(fd) /\ ~fd.initExpression /\ ~fd.typeExpression
GenericUninitialized(fd) ==
  ValueField(fd) /\ ~fd.initExpression /\ fd.typeExpression /\ fd.g = "GENERIC"

\* the fields the statement includes
StatedFields(fd) ==
  TypeField(fd) \/ ParamWithoutValue(fd) \/ UntypedUninitialized(fd)
    \/ GenericUninitialized(fd)

FormalFields(sig) == {sig.formals[i].field : i \in 1..Len(sig.formals)}

InFieldOrder(sig) ==
  \A i, j \in 1..Len(sig.formals) : i < j => sig.formals[i].field < sig.formals[j].field

\* C26 (as the code has it): typeConstructorInitial(t) has one formal per
\* included field, in field declaration order; a field is included iff its
\* type is not concrete yet and it is a type field, a param field without
\* a value, or a value field with no initializer that has no declared type
\* or a generic one (generic-with-defaults does not count); the field with
\* neither declared type nor initializer becomes a type formal of AnyType;
\* the signature has needsInstantiation = true and where = none.
C26_TypeConstructorFormals ==
  tclog # <<>> =>
    /\ FormalFields(tclog.sig) =
         {i \in 1..Len(tclog.fields) :
            NotYetConcrete(tclog.fields[i]) /\ StatedFields(tclog.fields[i])}
    /\ InFieldOrder(tclog.sig)
    /\ \A k \in 1..Len(tclog.sig.formals) :
         UntypedUninitialized(tclog.fields[tclog.sig.formals[k].field])
           => (tclog.sig.formals[k].kind = "TYPE"
                 /\ tclog.sig.formals[k].type = "AnyType")
    /\ tclog.sig.needsInstantiation
    /\ tclog.sig.where = "WHERE_NONE"

\* the type constructor of a type whose first field is a type field that
\* is already instantiated and whose second field is generic
C26_InstantiatedTypeField ==
  /\ tclog # <<>>
  /\ Len(tclog.fields) = 2
  /\ TypeField(tclog.fields[1]) /\ ~NotYetConcrete(tclog.fields[1])
  /\ GenericUninitialized(tclog.fields[2])
  /\ FormalFields(tclog.sig) = {2}

\* C26 (as stated): a field is included iff it is a type field, a param
\* field without a value, or a value field with no initializer whose
\* declared type is generic or absent.
C26_StatedFieldsIncluded ==
  tclog # <<>> =>
    FormalFields(tclog.sig) =
      {i \in 1..Len(tclog.fields) : StatedFields(tclog.fields[i])}

\* the statement without the exception: every signature that needs no
\* instantiation carries none, true or false
C23_ConcreteNeverTbd ==
  \A i \in 1..Len(slog) :
    ~slog[i].sig.needsInstantiation =>
      slog[i].sig.where \in {"WHERE_NONE", "WHERE_TRUE", "WHERE_FALSE"}

\* ---------------------------------------------------------------------------
\* The topology layer of the runtime (src/runtime/src/topo/hwloc/topo-hwloc.c):
\* the accessible cores and PUs, the reservation of a core and the binding of
\* a thread to it.  The state starts after chpl_topo_pre_comm_init has loaded
\* the topology (haveTopology is true) and cpuInfoInit has run with one kind
\* of PU.
\* ---------------------------------------------------------------------------

\* PUs of the compute node
MaxPUs == 4

\* no socket was chosen (socket == NULL)
NoSocket == -1

\* the OS indices of the PUs
PUs(m) == 0..(m.numPUs - 1)

\* hwloc_get_ancestor_obj_by_type(topology, HWLOC_OBJ_CORE, pu)
CoreOf(m, p) == p \div m.pusPerCore

Cores(m) == {CoreOf(m, p) : p \in PUs(m)}

\* core->cpuset
CoreCpuset(m, c) == {p \in PUs(m) : CoreOf(m, p) = c}

\* the package of a core: with two packages the cores are split in halves
SocketOf(m, c) ==
  IF m.numSockets = 1 THEN 0
  ELSE IF 2 * c < Cardinality(Cores(m)) THEN 0 ELSE 1

\* socket->cpuset
SocketCpuset(m, s) == {p \in PUs(m) : SocketOf(m, CoreOf(m, p)) = s}

\* hwloc_bitmap_first / hwloc_bitmap_last: -1 for the empty bitmap
bitmap_first(set) ==
  IF set = {} THEN -1 ELSE CHOOSE x \in set : \A y \in set : x <= y

bitmap_last(set) ==
  IF set = {} THEN -1 ELSE CHOOSE x \in set : \A y \in set : y <= x

\* NEXT_OBJ(cpuset, HWLOC_OBJ_CORE, ...): the cores inside the cpuset
CoresInside(m, cpuset) ==
  {c \in Cores(m) : CoreCpuset(m, c) \subseteq cpuset}

\* cpuInfoInit: the accessible PUs and cores, and the counts of all of them
cpuInfoInit(m) ==
  LET logAcc == m.allowed
      accCores == CoresInside(m, logAcc)
      physAcc == {bitmap_first(CoreCpuset(m, c)) : c \in accCores}
      maxPus == IF accCores = {} THEN 0
                ELSE CHOOSE n \in 0..m.numPUs :
                       /\ \E c \in accCores : Cardinality(CoreCpuset(m, c)) = n
                       /\ \A c \in accCores : Cardinality(CoreCpuset(m, c)) <= n
      logAll == Cardinality(PUs(m))
  IN  [logAccSet |-> logAcc,
       physAccSet |-> physAcc,
       numCPUsLogAcc |-> Cardinality(logAcc),
       numCPUsPhysAcc |-> Cardinality(physAcc),
       numCPUsLogAll |-> logAll,
       numCPUsPhysAll |-> IF physAcc = {} THEN 0
                          ELSE IF logAll = Cardinality(logAcc)
                          THEN Cardinality(physAcc)
                          ELSE logAll \div maxPus]

numCPUsPhysAll == cpuInfoInit(tmach).numCPUsPhysAll
numCPUsLogAll == cpuInfoInit(tmach).numCPUsLogAll

\* topoSupport->cpubind->set_thisthread_cpubind
set_thisthread_cpubind == tmach.bindSupported

\* a call of the interface and what it returned
TopoCall(op, flag, arg, ret, cpus) ==
  [op |-> op, flag |-> flag, arg |-> arg, ret |-> ret, cpus |-> cpus]

\* a variant in which handing out CPU information leaves reservation open
StillOkToReserve(ok) == ok

\* chpl_topo_getNumCPUs*, chpl_topo_getCPUs: okToReserveCPU = false
HandedOut(ok) == FALSE

\* a variant that leaves the PUs of the reserved core accessible
KeepCorePUs(logAcc, cpuset) == logAcc

\* hwloc_bitmap_andnot(logAccSet, logAccSet, core->cpuset)
ReserveCorePUs(logAcc, cpuset) == logAcc \ cpuset

\* a variant that binds to any id
AnyId(set, id) == TRUE

\* hwloc_bitmap_isset(physReservedSet, id)
bitmap_isset(set, id) == id \in set

\* chpl_error and a failed CHK_ERR end the program
TopoExit(op) ==
  /\ tpc' = "exited"
  /\ tlog' = TopoCall(op, FALSE, -1, -1, {})

\* chpl_topo_getNumCPUsPhysical(accessible_only)
GetNumCPUsPhysical ==
  /\ tpc = "running"
  /\ \E accessible_only \in BOOLEAN :
       LET cpus == IF accessible_only THEN numCPUsPhysAcc ELSE numCPUsPhysAll
       IN  tlog' = TopoCall("getNumCPUsPhysical", accessible_only, -1, cpus, {})
  /\ okToReserveCPU' = HandedOut(okToReserveCPU)
  /\ queried' = TRUE
  /\ UNCHANGED <<tmach, tpc, physAccSet, physReservedSet, logAccSet,
                 numCPUsPhysAcc, numCPUsLogAcc, socket, oversubscribed,
                 partitioned, tbound, granted>>
  /\ UNCHANGED <<callVars, fieldVars, bodyVars, instVars, exprVars, sigVars>>

\* chpl_topo_getNumCPUsLogical(accessible_only)
GetNumCPUsLogical ==
  /\ tpc = "running"
  /\ \E accessible_only \in BOOLEAN :
       LET cpus == IF accessible_only THEN numCPUsLogAcc ELSE numCPUsLogAll
       IN  tlog' = TopoCall("getNumCPUsLogical", accessible_only, -1, cpus, {})
  /\ okToReserveCPU' = HandedOut(okToReserveCPU)
  /\ queried' = TRUE
  /\ UNCHANGED <<tmach, tpc, physAccSet, physReservedSet, logAccSet,
                 numCPUsPhysAcc, numCPUsLogAcc, socket, oversubscribed,
                 partitioned, tbound, granted>>
  /\ UNCHANGED <<callVars, fieldVars, bodyVars, instVars, exprVars, sigVars>>

\* getCPUs: the first `size` indices of the cpuset, in rising order
getCPUs(cpuset, size) ==
  {id \in cpuset : Cardinality({o \in cpuset : o < id}) < size}

\* chpl_topo_getCPUs(physical, cpus, count)
GetCPUs ==
  /\ tpc = "running"
  /\ \E physical \in BOOLEAN, count \in 0..MaxPUs :
       LET cpus == getCPUs(IF physical THEN physAccSet ELSE logAccSet, count)
       IN  tlog' = TopoCall("getCPUs", physical, count, Cardinality(cpus), cpus)
  /\ okToReserveCPU' = HandedOut(okToReserveCPU)
  /\ queried' = TRUE
  /\ UNCHANGED <<tmach, tpc, physAccSet, physReservedSet, logAccSet,
                 numCPUsPhysAcc, numCPUsLogAcc, socket, oversubscribed,
                 partitioned, tbound, granted>>
  /\ UNCHANGED <<callVars, fieldVars, bodyVars, instVars, exprVars, sigVars>>

\* partitionResources: whether the locale confines itself to its socket
ConfinesToSocket ==
  /\ tmach.expectedLocalesOnNode > 1 \/ tmach.useSocket
  /\ numCPUsPhysAcc = numCPUsPhysAll
  /\ tmach.numLocalesOnNode <= tmach.numSockets
  /\ tmach.rank # -1

\* partitionResources: more locales on the node than sockets is an error
TooManyLocales ==
  /\ tmach.expectedLocalesOnNode > 1 \/ tmach.useSocket
  /\ numCPUsPhysAcc = numCPUsPhysAll
  /\ tmach.numLocalesOnNode > tmach.numSockets
  /\ tmach.expectedLocalesOnNode > 0

\* chpl_topo_post_comm_init: partitionResources
PartitionResources ==
  /\ tpc = "running"
  /\ ~partitioned
  /\ partitioned' = TRUE
  /\ IF ConfinesToSocket
     THEN LET cpuset == SocketCpuset(tmach, tmach.rank)
              logAcc == logAccSet \cap cpuset
              physAcc == physAccSet \cap cpuset
          IN  /\ logAccSet' = logAcc
              /\ numCPUsLogAcc' = Cardinality(logAcc)
              /\ IF logAcc = {}
                 THEN /\ TopoExit("partitionResources")
                      /\ UNCHANGED <<physAccSet, numCPUsPhysAcc, socket, oversubscribed>>
                 ELSE /\ physAccSet' = physAcc
                      /\ numCPUsPhysAcc' = Cardinality(physAcc)
                      /\ IF physAcc = {}
                         THEN /\ TopoExit("partitionResources")
                              /\ UNCHANGED <<socket, oversubscribed>>
                         ELSE /\ socket' = tmach.rank
                              /\ oversubscribed' = FALSE
                              /\ tlog' = TopoCall("partitionResources", TRUE, -1, 0, {})
                              /\ UNCHANGED tpc
     ELSE /\ oversubscribed' = (tmach.numLocalesOnNode > 1)
          /\ IF TooManyLocales
             THEN TopoExit("partitionResources")
             ELSE /\ tlog' = TopoCall("partitionResources", FALSE, -1, 0, {})
                  /\ UNCHANGED tpc
          /\ UNCHANGED <<physAccSet, logAccSet, numCPUsPhysAcc, numCPUsLogAcc, socket>>
  /\ UNCHANGED <<tmach, physReservedSet, okToReserveCPU, tbound, granted, queried>>
  /\ UNCHANGED <<callVars, fieldVars, bodyVars, instVars, exprVars, sigVars>>

\* chpl_topo_reserveCPUPhysical
ReserveCPUPhysical ==
  /\ tpc = "running"
  /\ LET id == IF okToReserveCPU /\ set_thisthread_cpubind /\ numCPUsPhysAcc > 1
               THEN bitmap_last(physAccSet) ELSE -1
     IN  IF id >= 0
         THEN LET physAcc == physAccSet \ {id}
                  logAcc == ReserveCorePUs(logAccSet, CoreCpuset(tmach, CoreOf(tmach, id)))
              IN  /\ physAccSet' = physAcc
                  /\ numCPUsPhysAcc' = Cardinality(physAcc)
                  /\ physReservedSet' = physReservedSet \cup {id}
                  /\ logAccSet' = logAcc
                  /\ numCPUsLogAcc' = Cardinality(logAcc)
                  /\ IF physAcc = {} \/ logAcc = {}
                     THEN /\ TopoExit("reserveCPUPhysical")
                          /\ UNCHANGED granted
                     ELSE /\ tlog' = TopoCall("reserveCPUPhysical", TRUE, -1, id, {})
                          /\ granted' = granted \cup {id}
                          /\ UNCHANGED tpc
         ELSE /\ tlog' = TopoCall("reserveCPUPhysical", FALSE, -1, id, {})
              /\ UNCHANGED <<tpc, physAccSet, numCPUsPhysAcc, physReservedSet,
                             logAccSet, numCPUsLogAcc, granted>>
  /\ UNCHANGED <<tmach, okToReserveCPU, socket, oversubscribed, partitioned,
                 tbound, queried>>
  /\ UNCHANGED <<callVars, fieldVars, bodyVars, instVars, exprVars, sigVars>>

\* the ids a caller passes to chpl_topo_bindCPU
BindIds == -1..MaxPUs

\* chpl_topo_bindCPU(id)
BindCPU ==
  /\ tpc = "running"
  /\ \E id \in BindIds :
       IF bitmap_isset(physReservedSet, id) /\ set_thisthread_cpubind
       THEN /\ tbound' = {id}
            /\ tlog' = TopoCall("bindCPU", TRUE, id, 0, {id})
       ELSE /\ tlog' = TopoCall("bindCPU", FALSE, id, 1, {})
            /\ UNCHANGED tbound
  /\ UNCHANGED <<tmach, tpc, physAccSet, physReservedSet, logAccSet,
                 numCPUsPhysAcc, numCPUsLogAcc, okToReserveCPU, socket,
                 oversubscribed, partitioned, granted, queried>>
  /\ UNCHANGED <<callVars, fieldVars, bodyVars, instVars, exprVars, sigVars>>

TopoNext ==
  \/ GetNumCPUsPhysical
  \/ GetNumCPUsLogical
  \/ GetCPUs
  \/ PartitionResources
  \/ ReserveCPUPhysical
  \/ BindCPU

\* the allowed cpusets: every PU, or all but one
AllowedSets == {(0..(MaxPUs - 1)) \ x : x \in {{}} \cup {{p} : p \in 0..(MaxPUs - 1)}}

\* the compute nodes and launch settings: cores of one or two PUs in one
\* or two packages, an allowed cpuset that holds a whole core
TopoMachines ==
  {m \in [numPUs : {MaxPUs}, pusPerCore : {1, 2}, numSockets : {1, 2},
          allowed : AllowedSets, bindSupported : BOOLEAN,
          numLocalesOnNode : {1, 2}, expectedLocalesOnNode : {0, 1, 2},
          useSocket : BOOLEAN, rank : {-1, 0, 1}, haveTopology : {TRUE},
          get_thread_cpubind : {TRUE}, set_thread_cpubind : {TRUE}] :
     /\ m.numSockets <= Cardinality(Cores(m))
     /\ m.rank < m.numLocalesOnNode
     /\ m.useSocket <=> m.expectedLocalesOnNode = 0
     /\ cpuInfoInit(m).numCPUsPhysAcc > 0
     /\ cpuInfoInit(m).numCPUsPhysAll > 0}

InitTopo ==
  /\ tmach \in TopoMachines
  /\ tpc = "running"
  /\ physAccSet = cpuInfoInit(tmach).physAccSet
  /\ physReservedSet = {}
  /\ logAccSet = cpuInfoInit(tmach).logAccSet
  /\ numCPUsPhysAcc = cpuInfoInit(tmach).numCPUsPhysAcc
  /\ numCPUsLogAcc = cpuInfoInit(tmach).numCPUsLogAcc
  /\ okToReserveCPU = TRUE
  /\ socket = NoSocket
  /\ oversubscribed = FALSE
  /\ partitioned = FALSE
  /\ tbound = {}
  /\ tlog = TopoCall("pre_comm_init", FALSE, -1, 0, {})
  /\ granted = {}
  /\ queried = FALSE
  /\ prog = [fwd |-> NoForwarding, scopes |-> [s \in Scopes |-> <<>>],
             poiChain |-> <<>>, cg |-> NoCg, calls |-> {}]
  /\ IdleCall
  /\ IdleFields
  /\ IdleBody
  /\ IdleInst
  /\ IdleExprs
  /\ IdleSigs

SpecTopo == InitTopo /\ [][TopoNext]_vars

\* the cpuset of a NUMA domain (getNumaObj(subloc)->nodeset as a cpuset):
\* one domain for each package
NumaCpuset(m, subloc) == SocketCpuset(m, subloc)

\* the sublocales: the NUMA domains of the node
Sublocs(m) == 0..(m.numSockets - 1)

\* hwloc_set_cpubind(topology, set, flags) for a thread bound to `cur`: the
\* thread is bound to a set that holds a CPU; an empty set names no CPU to
\* run on, so the call fails or leaves the thread where it is
hwloc_set_cpubind(cur, set) ==
  IF set = {} THEN {[ok |-> FALSE, bound |-> cur], [ok |-> TRUE, bound |-> cur]}
  ELSE {[ok |-> TRUE, bound |-> set]}

\* chpl_topo_setThreadLocality: the cpuset the thread is bound to
LocalityCpuset(subloc) == NumaCpuset(tmach, subloc) \cap logAccSet

\* chpl_topo_setThreadLocality(subloc)
SetThreadLocality ==
  /\ tpc = "running"
  /\ \E subloc \in Sublocs(tmach) :
       IF ~tmach.haveTopology \/ ~tmach.set_thread_cpubind
       THEN /\ tlog' = TopoCall("setThreadLocality", FALSE, subloc, 0, tbound)
            /\ UNCHANGED <<tpc, tbound>>
       ELSE \E r \in hwloc_set_cpubind(tbound, LocalityCpuset(subloc)) :
              /\ tlog' = TopoCall("setThreadLocality", TRUE, subloc, 0, tbound)
              /\ IF r.ok THEN tbound' = r.bound /\ UNCHANGED tpc
                 ELSE tpc' = "exited" /\ UNCHANGED tbound
  /\ UNCHANGED <<tmach, physAccSet, physReservedSet, logAccSet,
                 numCPUsPhysAcc, numCPUsLogAcc, okToReserveCPU, socket,
                 oversubscribed, partitioned, granted, queried>>
  /\ UNCHANGED <<callVars, fieldVars, bodyVars, instVars, exprVars, sigVars>>

\* the numbers of pages alignAddrSize finds in the memory to touch
PageCounts == 0..1

\* chpl_topo_touchMemFromSubloc(p, size, onlyInside, subloc): cpuset is the
\* bitmap hwloc_bitmap_alloc returned, which is empty, in both calls of
\* hwloc_set_cpubind; the log keeps the binding in force before the call
TouchMemFromSubloc ==
  /\ tpc = "running"
  /\ \E subloc \in Sublocs(tmach), nPages \in PageCounts :
       IF \/ ~tmach.haveTopology
          \/ ~tmach.get_thread_cpubind
          \/ ~tmach.set_thread_cpubind
          \/ nPages = 0
       THEN /\ tlog' = TopoCall("touchMemFromSubloc", FALSE, subloc, nPages, tbound)
            /\ UNCHANGED <<tpc, tbound>>
       ELSE LET cpuset == {} IN
            /\ tlog' = TopoCall("touchMemFromSubloc", TRUE, subloc, nPages, tbound)
            /\ \E r1 \in hwloc_set_cpubind(tbound, cpuset) :
                 IF ~r1.ok THEN tpc' = "exited" /\ UNCHANGED tbound
                 ELSE \E r2 \in hwloc_set_cpubind(r1.bound, LocalityCpuset(subloc)) :
                        IF ~r2.ok THEN tpc' = "exited" /\ UNCHANGED tbound
                        ELSE \E r3 \in hwloc_set_cpubind(r2.bound, cpuset) :
                               IF ~r3.ok THEN tpc' = "exited" /\ UNCHANGED tbound
                               ELSE tbound' = r3.bound /\ UNCHANGED tpc
  /\ UNCHANGED <<tmach, physAccSet, physReservedSet, logAccSet,
                 numCPUsPhysAcc, numCPUsLogAcc, okToReserveCPU, socket,
                 oversubscribed, partitioned, granted, queried>>
  /\ UNCHANGED <<callVars, fieldVars, bodyVars, instVars, exprVars, sigVars>>

TouchNext ==
  \/ ReserveCPUPhysical
  \/ BindCPU
  \/ SetThreadLocality
  \/ TouchMemFromSubloc

\* the compute nodes with and without support for reading and setting the
\* binding of a thread
TouchMachines ==
  {[m EXCEPT !.get_thread_cpubind = g, !.set_thread_cpubind = st] :
     m \in TopoMachines, g \in BOOLEAN, st \in BOOLEAN}

InitTouch ==
  /\ tmach \in TouchMachines
  /\ tpc = "running"
  /\ physAccSet = cpuInfoInit(tmach).physAccSet
  /\ physReservedSet = {}
  /\ logAccSet = cpuInfoInit(tmach).logAccSet
  /\ numCPUsPhysAcc = cpuInfoInit(tmach).numCPUsPhysAcc
  /\ numCPUsLogAcc = cpuInfoInit(tmach).numCPUsLogAcc
  /\ okToReserveCPU = TRUE
  /\ socket = NoSocket
  /\ oversubscribed = FALSE
  /\ partitioned = FALSE
  /\ tbound = {}
  /\ tlog = TopoCall("pre_comm_init", FALSE, -1, 0, {})
  /\ granted = {}
  /\ queried = FALSE
  /\ prog = [fwd |-> NoForwarding, scopes |-> [s \in Scopes |-> <<>>],
             poiChain |-> <<>>, cg |-> NoCg, calls |-> {}]
  /\ IdleCall
  /\ IdleFields
  /\ IdleBody
  /\ IdleInst
  /\ IdleExprs
  /\ IdleSigs

SpecTouch == InitTouch /\ [][TouchNext]_vars

\* the call made last was chpl_topo_touchMemFromSubloc with pages to touch
\* on a node that can read and set the binding of a thread
TouchedPages == tlog.op = "touchMemFromSubloc" /\ tlog.flag

\* C30: chpl_topo_touchMemFromSubloc leaves the binding of the calling
\* thread unchanged: the call returns with the thread bound to exactly the
\* CPU set it was bound to before the call
C30_BindingRestored ==
  TouchedPages => (tpc = "running" /\ tbound = tlog.cpus)

\* whenever the call returns, the thread is left bound to the accessible
\* CPUs of the sublocale, if it has any
ReturnsBoundToSubloc ==
  (TouchedPages /\ tpc = "running" /\ LocalityCpuset(tlog.arg) # {})
    => tbound = LocalityCpuset(tlog.arg)

\* the call returns with the binding changed
TouchChangedBinding ==
  TouchedPages /\ tpc = "running" /\ tbound # tlog.cpus

\* the state of the accessible and reserved CPUs
CpuSets == <<physAccSet, logAccSet, physReservedSet, numCPUsPhysAcc, numCPUsLogAcc>>

\* the step is a call of chpl_topo_reserveCPUPhysical
ReserveStep == tlog'.op = "reserveCPUPhysical"

\* C16: chpl_topo_reserveCPUPhysical reserves a core only before any of
\* chpl_topo_getCPUs, chpl_topo_getNumCPUsPhysical and
\* chpl_topo_getNumCPUsLogical was called: once one of them was called, every
\* reserve call returns -1 and leaves physAccSet, logAccSet, physReservedSet,
\* numCPUsPhysAcc and numCPUsLogAcc as they were.
C16_ReserveOnlyBeforeQueries ==
  [][(ReserveStep /\ queried) =>
       (tlog'.ret = -1 /\ CpuSets' = CpuSets /\ tpc' = "running")]_vars

\* a reserve call was refused after CPU information was handed out, on a
\* node where it would have reserved a core otherwise
C16_RefusedAfterQuery ==
  /\ tpc = "running"
  /\ tlog.op = "reserveCPUPhysical"
  /\ tlog.ret = -1
  /\ queried
  /\ set_thisthread_cpubind
  /\ numCPUsPhysAcc > 1

\* the PUs of the cores that were reserved
ReservedPUs == UNION {CoreCpuset(tmach, CoreOf(tmach, id)) : id \in granted}

\* no reserved core or PU of one is handed out or counted
ReservedExcluded ==
  tpc = "running" =>
    /\ physAccSet \cap ReservedPUs = {}
    /\ logAccSet \cap ReservedPUs = {}
    /\ numCPUsPhysAcc = Cardinality(physAccSet)
    /\ numCPUsLogAcc = Cardinality(logAccSet)
    /\ numCPUsPhysAcc >= 1
    /\ tlog.op = "getCPUs" => tlog.cpus \cap ReservedPUs = {}
    /\ (tlog.op = "getNumCPUsPhysical" /\ tlog.flag) =>
         tlog.ret = Cardinality(physAccSet \ ReservedPUs)
    /\ (tlog.op = "getNumCPUsLogical" /\ tlog.flag) =>
         tlog.ret = Cardinality(logAccSet \ ReservedPUs)

\* a core is reserved only where binding is supported and a second
\* accessible core is left
ReserveGuarded ==
  (ReserveStep /\ tlog'.ret >= 0) =>
    (set_thisthread_cpubind /\ numCPUsPhysAcc > 1 /\ numCPUsPhysAcc' >= 1)

\* C17: after chpl_topo_reserveCPUPhysical returned an id >= 0, the reserved
\* core and its PUs are never returned by chpl_topo_getCPUs and not counted by
\* chpl_topo_getNumCPUsPhysical/Logical(accessible_only = true), in every
\* later state, partitionResources included; a reserve never happens when CPU
\* binding is unsupported or one accessible core is left, so an accessible
\* core always remains.
C17_ReservedCoreExcluded ==
  [][ReservedExcluded' /\ ReserveGuarded]_vars

\* PU indices were handed out after the locale was confined to its socket
\* and a core of that socket was reserved
C17_ListedAfterReserve ==
  /\ tpc = "running"
  /\ granted # {}
  /\ socket # NoSocket
  /\ tlog.op = "getCPUs"
  /\ ~tlog.flag
  /\ tlog.cpus # {}

\* the step is a call of chpl_topo_bindCPU
BindStep == tlog'.op = "bindCPU"

\* C18: chpl_topo_bindCPU(id) returns 0 and binds the thread only if id was
\* returned by an earlier successful chpl_topo_reserveCPUPhysical and binding
\* threads is supported; for an id that was never reserved it returns 1 and
\* binds nothing.
C18_BindOnlyReserved ==
  [][BindStep =>
       /\ tlog'.ret \in {0, 1}
       /\ (tlog'.ret = 0 \/ tbound' # tbound) =>
            (tlog'.arg \in granted /\ set_thisthread_cpubind)
       /\ tlog'.arg \notin granted => (tlog'.ret = 1 /\ tbound' = tbound)]_vars

\* a thread was bound to a reserved core, and an id that was never reserved
\* was turned down while another core was reserved
C18_BoundToReserved ==
  /\ tlog.op = "bindCPU"
  /\ tlog.ret = 1
  /\ tlog.arg \notin granted
  /\ tlog.arg \in logAccSet
  /\ tbound # {}
  /\ tbound \subseteq granted


\* the form resolved last was given an actual (an element, for a tuple
\* expression) of unknown type
UnknownActual ==
  /\ elog # <<>>
  /\ IF elog.form = "tuple"
     THEN \E i \in 1..Len(elog.ci.actuals) : ElementUnknown(elog.ci.actuals[i])
     ELSE /\ ~elog.ci.hasQuestionArg
          /\ Len(elog.ci.actuals) = 1
          /\ ElementUnknown(elog.ci.actuals[1])

PropagatedUnknown == elog.r.type = UnknownType /\ elog.r.errors = <<>>

\* C29: when the actual of a numeric type constructor, of c_ptr, of owned,
\* shared, unmanaged or borrowed, or an element of a tuple expression has an
\* unknown type, the result type is UnknownType and no diagnostic is emitted
C29_UnknownPropagates == UnknownActual => PropagatedUnknown

\* the same for the forms other than the class-management constructors
UnknownPropagatesOutsideClasses ==
  (UnknownActual /\ elog.form # "class") => PropagatedUnknown

\* a class-management constructor given an unknown actual reports nothing
UnknownClassActualSilent ==
  (UnknownActual /\ elog.form = "class") => elog.r.errors = <<>>

====
